---- MODULE Spec2Model ----
(***************************************************************************)
(* Fantasy-soccer scoring and team-validation core of sebaterri/cursor:    *)
(* the backend scoring module, the frontend calculations module and the    *)
(* score helper of the two router files, as state machines whose initial   *)
(* states draw the arguments and whose actions call the functions.         *)
(*                                                                         *)
(* JavaScript numbers are modelled as tagged values, so that a property    *)
(* read of an absent field (undefined) and the not-a-number value it       *)
(* produces in arithmetic are values the model can compute and compare.    *)
(* Finite numbers are exact rationals n/d in lowest terms with d > 0.      *)
(***************************************************************************)
EXTENDS Integers, Sequences, FiniteSets, TLC

VARIABLES stats, composition, players, ret, store, component, server

vars == <<stats, composition, players, ret, store, component, server>>

\* the state of the running applications: a reducer's state, the TeamBuilder
\* component's state and the backend server's state
appVars == <<store, component, server>>

(***************************************************************************)
(* Bounds of the model.                                                    *)
(***************************************************************************)
MaxStat == 1          \* goals, assists, cleanSheets, yellowCards, redCards in 0..MaxStat
MaxAppearances == 2   \* appearances in 0..MaxAppearances
MaxCount == 7         \* each count of a TeamComposition in 0..MaxCount
MaxPlayers == 4       \* length of a list of players handed to a function

(***************************************************************************)
(* JavaScript values and the operators the source applies to them.         *)
(***************************************************************************)
Abs(x) == IF x < 0 THEN -x ELSE x

RECURSIVE GCD(_, _)
GCD(a, b) == IF b = 0 THEN a ELSE GCD(b, a % b)

Rat(n, d) ==
  LET g == GCD(Abs(n), Abs(d))
      s == IF d < 0 THEN -1 ELSE 1
  IN  [t |-> "number", n |-> (s * n) \div g, d |-> (s * d) \div g]

Num(n) == [t |-> "number", n |-> n, d |-> 1]
Undefined == [t |-> "undefined", n |-> 0, d |-> 1]
NaN == [t |-> "NaN", n |-> 0, d |-> 1]
Infinity(sign) == [t |-> "Infinity", n |-> sign, d |-> 1]
TypeError == [t |-> "TypeError", n |-> 0, d |-> 1]

\* ToNumber of an operand of * + - / : undefined converts to NaN.
ToNumber(v) == IF v.t = "undefined" THEN NaN ELSE v

\* a * b, a + b, a - b on finite numbers, NaN and undefined (no infinite
\* value is an operand of these operators anywhere in the source).
JsMul(a, b) ==
  LET x == ToNumber(a)
      y == ToNumber(b)
  IN  IF x.t = "number" /\ y.t = "number" THEN Rat(x.n * y.n, x.d * y.d) ELSE NaN

JsAdd(a, b) ==
  LET x == ToNumber(a)
      y == ToNumber(b)
  IN  IF x.t = "number" /\ y.t = "number"
      THEN Rat(x.n * y.d + y.n * x.d, x.d * y.d) ELSE NaN

JsSub(a, b) ==
  LET x == ToNumber(a)
      y == ToNumber(b)
  IN  IF x.t = "number" /\ y.t = "number"
      THEN Rat(x.n * y.d - y.n * x.d, x.d * y.d) ELSE NaN

\* a / b : a zero divisor gives NaN (0/0) or an infinity.
JsDiv(a, b) ==
  LET x == ToNumber(a)
      y == ToNumber(b)
  IN  IF x.t = "number" /\ y.t = "number"
      THEN IF y.n = 0
           THEN IF x.n = 0 THEN NaN ELSE Infinity(IF x.n < 0 THEN -1 ELSE 1)
           ELSE Rat(x.n * y.d, x.d * y.n)
      ELSE NaN

\* Math.max(a, b) : NaN if either argument converts to NaN.
MathMax(a, b) ==
  LET x == ToNumber(a)
      y == ToNumber(b)
  IN  IF x.t = "number" /\ y.t = "number"
      THEN IF x.n * y.d >= y.n * x.d THEN x ELSE y
      ELSE NaN

\* a === b : NaN is equal to nothing.
StrictEquals(a, b) == a.t # "NaN" /\ b.t # "NaN" /\ a = b

\* truthiness of a number-or-undefined value, and a || b
Truthy(v) == v.t = "Infinity" \/ (v.t = "number" /\ v.n # 0)
JsOr(a, b) == IF Truthy(a) THEN a ELSE b

(***************************************************************************)
(* Scoring formulas.                                                       *)
(***************************************************************************)
\* mutant: a red card costs 2 in the backend default
DEFAULT_SCORING_FORMULA_RedCardsTwo ==
  [goalsMultiplier |-> Num(4), assistsMultiplier |-> Num(3),
   cleanSheetsMultiplier |-> Num(2), yellowCardsPenalty |-> Num(1),
   redCardsPenalty |-> Num(2)]

DEFAULT_SCORING_FORMULA ==
  [goalsMultiplier |-> Num(4), assistsMultiplier |-> Num(3),
   cleanSheetsMultiplier |-> Num(2), yellowCardsPenalty |-> Num(1),
   redCardsPenalty |-> Num(3)]

DEFAULT_FORMULA ==
  [goalsMultiplier |-> Num(4), assistsMultiplier |-> Num(3),
   cleanSheetsMultiplier |-> Num(2), yellowCardsPenalty |-> Num(1),
   redCardsPenalty |-> Num(3)]

\* the formulas a caller supplies: the default one and signed variations
Formulas ==
  [goalsMultiplier : {Num(4), Num(-1)}, assistsMultiplier : {Num(3), Num(0)},
   cleanSheetsMultiplier : {Num(2)}, yellowCardsPenalty : {Num(1), Num(5)},
   redCardsPenalty : {Num(3), Num(-2)}]

\* the formula argument of a call: a formula, or omitted
FormulaArgs == Formulas \cup {Undefined}

(***************************************************************************)
(* backend scoring module                                                  *)
(***************************************************************************)
\* mutant: the score is returned without the Math.max(0, score) floor
calculateFantasyScore_NoFloor(s, formula) ==
  LET f == IF formula = Undefined THEN DEFAULT_SCORING_FORMULA ELSE formula
  IN  JsSub(JsSub(JsAdd(JsAdd(JsMul(s.goals, f.goalsMultiplier),
                              JsMul(s.assists, f.assistsMultiplier)),
                        JsMul(s.cleanSheets, f.cleanSheetsMultiplier)),
                  JsMul(s.yellowCards, f.yellowCardsPenalty)),
            JsMul(s.redCards, f.redCardsPenalty))

calculateFantasyScore(s, formula) ==
  LET f == IF formula = Undefined THEN DEFAULT_SCORING_FORMULA ELSE formula
      score ==
        JsSub(JsSub(JsAdd(JsAdd(JsMul(s.goals, f.goalsMultiplier),
                                JsMul(s.assists, f.assistsMultiplier)),
                          JsMul(s.cleanSheets, f.cleanSheetsMultiplier)),
                    JsMul(s.yellowCards, f.yellowCardsPenalty)),
              JsMul(s.redCards, f.redCardsPenalty))
  IN  MathMax(Num(0), score)

\* mutant: the appearances === 0 guard is missing
calculateAverageScore_NoZeroGuard(s, formula) ==
  LET f == IF formula = Undefined THEN DEFAULT_SCORING_FORMULA ELSE formula
  IN  JsDiv(MathMax(Num(0),
                    JsSub(JsSub(JsAdd(JsAdd(JsMul(s.goals, f.goalsMultiplier),
                                            JsMul(s.assists, f.assistsMultiplier)),
                                      JsMul(s.cleanSheets, f.cleanSheetsMultiplier)),
                                JsMul(s.yellowCards, f.yellowCardsPenalty)),
                          JsMul(s.redCards, f.redCardsPenalty))),
            s.appearances)

calculateAverageScore(s, formula) ==
  LET f == IF formula = Undefined THEN DEFAULT_SCORING_FORMULA ELSE formula
  IN  IF StrictEquals(s.appearances, Num(0)) THEN Num(0)
      ELSE JsDiv(calculateFantasyScore(s, f), s.appearances)

(***************************************************************************)
(* frontend calculations module: the formula parameter has no default, so  *)
(* reading a weight of an omitted formula throws.                          *)
(***************************************************************************)
\* mutant: the frontend copy returns the score without the floor
calculateFantasyScoreFrontend_NoFloor(s, formula) ==
  IF formula = Undefined THEN TypeError
  ELSE JsSub(JsSub(JsAdd(JsAdd(JsMul(s.goals, formula.goalsMultiplier),
                               JsMul(s.assists, formula.assistsMultiplier)),
                         JsMul(s.cleanSheets, formula.cleanSheetsMultiplier)),
                   JsMul(s.yellowCards, formula.yellowCardsPenalty)),
             JsMul(s.redCards, formula.redCardsPenalty))

calculateFantasyScoreFrontend(s, formula) ==
  IF formula = Undefined THEN TypeError
  ELSE LET score ==
             JsSub(JsSub(JsAdd(JsAdd(JsMul(s.goals, formula.goalsMultiplier),
                                     JsMul(s.assists, formula.assistsMultiplier)),
                               JsMul(s.cleanSheets, formula.cleanSheetsMultiplier)),
                         JsMul(s.yellowCards, formula.yellowCardsPenalty)),
                   JsMul(s.redCards, formula.redCardsPenalty))
       IN  MathMax(Num(0), score)

calculateAverageScoreFrontend(s, formula) ==
  IF StrictEquals(s.appearances, Num(0)) THEN Num(0)
  ELSE LET score == calculateFantasyScoreFrontend(s, formula)
       IN  IF score = TypeError THEN TypeError ELSE JsDiv(score, s.appearances)

(***************************************************************************)
(* score helper of routes/players.ts and of its cached variant             *)
(***************************************************************************)
calculateFantasyScoreRouter(s) ==
  JsSub(JsSub(JsAdd(JsAdd(JsMul(s.goals, Num(4)), JsMul(s.assists, Num(3))),
                    JsMul(s.cleanSheets, Num(2))),
              s.yellowCards),
        JsMul(s.redCards, Num(3)))

calculateFantasyScoreCachedRouter(s) ==
  JsSub(JsSub(JsAdd(JsAdd(JsMul(s.goals, Num(4)), JsMul(s.assists, Num(3))),
                    JsMul(s.cleanSheets, Num(2))),
              s.yellowCards),
        JsMul(s.redCards, Num(3)))

(***************************************************************************)
(* Specification of the scoring functions: a PlayerStats object is drawn,  *)
(* each action is one call on it.  The functions keep no state between     *)
(* calls, so a behaviour is one call: ret records the function called, its *)
(* formula argument and the value returned.                                *)
(***************************************************************************)
StatValues == {Num(n) : n \in 0..MaxStat} \cup {Undefined}

StatsObjects ==
  [goals : StatValues, assists : StatValues, cleanSheets : StatValues,
   yellowCards : StatValues, redCards : StatValues,
   appearances : {Num(n) : n \in 0..MaxAppearances}]

NoComposition == [goalkeepers |-> 0, defenders |-> 0, midfielders |-> 0, forwards |-> 0]
NoCall == [fn |-> "none", arg |-> Undefined, val |-> Undefined]

\* no application runs while single functions are called
NoStore == [reducer |-> "none"]
NoComponent == [name |-> "none"]
NoServer == [name |-> "none"]
NoApp == store = NoStore /\ component = NoComponent /\ server = NoServer

Init ==
  /\ stats \in StatsObjects
  /\ composition = NoComposition
  /\ players = <<>>
  /\ ret = NoCall
  /\ NoApp

CallCalculateFantasyScore ==
  \E f \in FormulaArgs :
    /\ ret = NoCall
    /\ ret' = [fn |-> "calculateFantasyScore", arg |-> f,
               val |-> calculateFantasyScore(stats, f)]
    /\ UNCHANGED <<stats, composition, players, appVars>>

CallCalculateAverageScore ==
  \E f \in FormulaArgs :
    /\ ret = NoCall
    /\ ret' = [fn |-> "calculateAverageScore", arg |-> f,
               val |-> calculateAverageScore(stats, f)]
    /\ UNCHANGED <<stats, composition, players, appVars>>

CallCalculateFantasyScoreFrontend ==
  \E f \in FormulaArgs :
    /\ ret = NoCall
    /\ ret' = [fn |-> "frontend.calculateFantasyScore", arg |-> f,
               val |-> calculateFantasyScoreFrontend(stats, f)]
    /\ UNCHANGED <<stats, composition, players, appVars>>

CallCalculateAverageScoreFrontend ==
  \E f \in FormulaArgs :
    /\ ret = NoCall
    /\ ret' = [fn |-> "frontend.calculateAverageScore", arg |-> f,
               val |-> calculateAverageScoreFrontend(stats, f)]
    /\ UNCHANGED <<stats, composition, players, appVars>>

CallCalculateFantasyScoreRouter ==
  /\ ret = NoCall
  /\ ret' = [fn |-> "router.calculateFantasyScore", arg |-> Undefined,
             val |-> calculateFantasyScoreRouter(stats)]
  /\ UNCHANGED <<stats, composition, players, appVars>>

CallCalculateFantasyScoreCachedRouter ==
  /\ ret = NoCall
  /\ ret' = [fn |-> "cachedRouter.calculateFantasyScore", arg |-> Undefined,
             val |-> calculateFantasyScoreCachedRouter(stats)]
  /\ UNCHANGED <<stats, composition, players, appVars>>

Next ==
  \/ CallCalculateFantasyScore
  \/ CallCalculateAverageScore
  \/ CallCalculateFantasyScoreFrontend
  \/ CallCalculateAverageScoreFrontend
  \/ CallCalculateFantasyScoreRouter
  \/ CallCalculateFantasyScoreCachedRouter

Spec == Init /\ [][Next]_vars

(***************************************************************************)
(* Properties of the scoring functions, checked under Spec.                *)
(***************************************************************************)
ScoreFields == {"goals", "assists", "cleanSheets", "yellowCards", "redCards"}

\* every scoring counter of s is present (a number)
AllPresent(s) == \A k \in ScoreFields : s[k].t = "number"

\* s with every absent scoring counter set to 0
ZeroFilled(s) ==
  [k \in DOMAIN s |-> IF k \in ScoreFields /\ s[k].t = "undefined" THEN Num(0) ELSE s[k]]

\* the raw score of section 4.1 in integer arithmetic, for present counters
\* and integer weights
RawScore(s, f) ==
  s.goals.n * f.goalsMultiplier.n + s.assists.n * f.assistsMultiplier.n
  + s.cleanSheets.n * f.cleanSheetsMultiplier.n
  - s.yellowCards.n * f.yellowCardsPenalty.n - s.redCards.n * f.redCardsPenalty.n

Max0(x) == IF x > 0 THEN x ELSE 0

ScoreCalls == {"calculateFantasyScore", "frontend.calculateFantasyScore"}
AverageCalls == {"calculateAverageScore", "frontend.calculateAverageScore"}
RouterCalls == {"router.calculateFantasyScore", "cachedRouter.calculateFantasyScore"}

\* the default weights as the spec states them
FourThreeTwoOneThree ==
  [goalsMultiplier |-> Num(4), assistsMultiplier |-> Num(3),
   cleanSheetsMultiplier |-> Num(2), yellowCardsPenalty |-> Num(1),
   redCardsPenalty |-> Num(3)]

\* a call the claims on scores are about: a formula is supplied, or the
\* backend function is called without one (the frontend copies require it)
FormulaGiven == ret.arg # Undefined \/ ret.fn \in {"calculateFantasyScore", "calculateAverageScore"}

\* the formula in force in the call
FormulaInForce == IF ret.arg = Undefined THEN FourThreeTwoOneThree ELSE ret.arg

\* C1: with every counter a non-negative integer and an integer-weight
\* formula supplied, calculateFantasyScore (backend and frontend) returns
\* exactly max(0, raw) as an integer (no rounding), hence a value >= 0.
C1_ScoreIsFlooredRaw ==
  (ret.fn \in ScoreCalls /\ FormulaGiven /\ AllPresent(stats))
    => /\ ret.val = Num(Max0(RawScore(stats, FormulaInForce)))
       /\ ret.val.t = "number" /\ ret.val.d = 1 /\ ret.val.n >= 0

\* C1 witness: a call whose raw score is negative returned 0, in both copies.
C1_Witness ==
  /\ ret.fn \in ScoreCalls /\ ret.arg # Undefined /\ AllPresent(stats)
  /\ RawScore(stats, ret.arg) < 0
  /\ ret.val = Num(0)

\* C2: the score helper of the router files never returns a negative score
\* for non-negative integer stats.
C2_RouterScoreNeverNegative ==
  (ret.fn \in RouterCalls /\ AllPresent(stats))
    => (ret.val.t = "number" /\ ret.val.n >= 0)

\* C3: calculateAverageScore returns 0 when appearances is 0 and otherwise
\* the floored score divided by appearances: val * appearances = max(0, raw).
C3_AverageIsFlooredScorePerAppearance ==
  (ret.fn \in AverageCalls /\ FormulaGiven /\ AllPresent(stats))
    => /\ ret.val.t = "number"
       /\ (stats.appearances.n = 0 => ret.val = Num(0))
       /\ (stats.appearances.n # 0 =>
             ret.val.n * stats.appearances.n
               = Max0(RawScore(stats, FormulaInForce)) * ret.val.d)

\* C3 witness: a fractional average (1/2), one of zero appearances is
\* covered by the first conjunct of the formula.
C3_Witness ==
  /\ ret.fn \in AverageCalls /\ ret.arg # Undefined /\ AllPresent(stats)
  /\ stats.appearances = Num(2)
  /\ RawScore(stats, ret.arg) > 0
  /\ ret.val.d = 2

\* C4: an absent scoring counter is treated as 0: the score of stats with
\* absent counters is the score of the same stats with those counters 0,
\* a non-negative number.
C4_AbsentFieldCountsAsZero ==
  (ret.fn \in ScoreCalls /\ ret.arg # Undefined /\ ~AllPresent(stats))
    => /\ ret.val.t = "number" /\ ret.val.n >= 0
       /\ ret.val = Num(Max0(RawScore(ZeroFilled(stats), ret.arg)))

\* C5: with the formula omitted the backend functions return what they
\* return for the formula (4, 3, 2, 1, 3), and the frontend DEFAULT_FORMULA
\* carries the same five weights as DEFAULT_SCORING_FORMULA.
C5_OmittedFormulaIsDefault ==
  /\ (ret.fn = "calculateFantasyScore" /\ ret.arg = Undefined)
       => ret.val = calculateFantasyScore(stats, FourThreeTwoOneThree)
  /\ (ret.fn = "calculateAverageScore" /\ ret.arg = Undefined)
       => ret.val = calculateAverageScore(stats, FourThreeTwoOneThree)
  /\ (ret.fn = "calculateFantasyScore" /\ ret.arg = Undefined /\ AllPresent(stats))
       => ret.val = Num(Max0(RawScore(stats, FourThreeTwoOneThree)))
  /\ DEFAULT_FORMULA = FourThreeTwoOneThree
  /\ DEFAULT_SCORING_FORMULA = FourThreeTwoOneThree

\* C5 witness: a call without formula on stats where every weight counts.
C5_Witness ==
  /\ ret.fn \in {"calculateFantasyScore", "calculateAverageScore"}
  /\ ret.arg = Undefined
  /\ \A k \in ScoreFields : stats[k] = Num(1)
  /\ stats.appearances = Num(1)
  /\ ret.val = Num(5)

(***************************************************************************)
(* Team composition validator (backend scoring module and frontend         *)
(* calculations module).  The counts of a TeamComposition are the lengths  *)
(* of filtered arrays or request numbers: integers.                        *)
(***************************************************************************)
Digits == <<"0", "1", "2", "3", "4", "5", "6", "7", "8", "9">>

\* the decimal text `${total}` puts in the message
RECURSIVE NumberToString(_)
NumberToString(n) ==
  IF n < 0 THEN "-" \o NumberToString(-n)
  ELSE IF n < 10 THEN Digits[n + 1]
  ELSE NumberToString(n \div 10) \o Digits[(n % 10) + 1]

\* mutant: the maximum-goalkeepers rule is missing
validateTeamComposition_NoMaxGoalkeepers(c) ==
  LET total == c.goalkeepers + c.defenders + c.midfielders + c.forwards
      e1 == IF total # 11
            THEN <<"Team must have exactly 11 players, got " \o NumberToString(total)>>
            ELSE <<>>
      e2 == IF c.goalkeepers < 1
            THEN Append(e1, "Team must have at least 1 goalkeeper") ELSE e1
      e4 == IF c.defenders < 3 \/ c.defenders > 6
            THEN Append(e2, "Team must have between 3 and 6 defenders") ELSE e2
      e5 == IF c.midfielders < 2 \/ c.midfielders > 5
            THEN Append(e4, "Team must have between 2 and 5 midfielders") ELSE e4
      errors == IF c.forwards < 1 \/ c.forwards > 3
                THEN Append(e5, "Team must have between 1 and 3 forwards") ELSE e5
  IN  [valid |-> Len(errors) = 0, errors |-> errors]

\* mutant: validation stops at the first violated rule
validateTeamComposition_FirstErrorOnly(c) ==
  LET total == c.goalkeepers + c.defenders + c.midfielders + c.forwards
      errors ==
        IF total # 11
        THEN <<"Team must have exactly 11 players, got " \o NumberToString(total)>>
        ELSE IF c.goalkeepers < 1 THEN <<"Team must have at least 1 goalkeeper">>
        ELSE IF c.goalkeepers > 3 THEN <<"Team cannot have more than 3 goalkeepers">>
        ELSE IF c.defenders < 3 \/ c.defenders > 6
             THEN <<"Team must have between 3 and 6 defenders">>
        ELSE IF c.midfielders < 2 \/ c.midfielders > 5
             THEN <<"Team must have between 2 and 5 midfielders">>
        ELSE IF c.forwards < 1 \/ c.forwards > 3
             THEN <<"Team must have between 1 and 3 forwards">>
        ELSE <<>>
  IN  [valid |-> Len(errors) = 0, errors |-> errors]

validateTeamComposition(c) ==
  LET total == c.goalkeepers + c.defenders + c.midfielders + c.forwards
      e1 == IF total # 11
            THEN <<"Team must have exactly 11 players, got " \o NumberToString(total)>>
            ELSE <<>>
      e2 == IF c.goalkeepers < 1
            THEN Append(e1, "Team must have at least 1 goalkeeper") ELSE e1
      e3 == IF c.goalkeepers > 3
            THEN Append(e2, "Team cannot have more than 3 goalkeepers") ELSE e2
      e4 == IF c.defenders < 3 \/ c.defenders > 6
            THEN Append(e3, "Team must have between 3 and 6 defenders") ELSE e3
      e5 == IF c.midfielders < 2 \/ c.midfielders > 5
            THEN Append(e4, "Team must have between 2 and 5 midfielders") ELSE e4
      errors == IF c.forwards < 1 \/ c.forwards > 3
                THEN Append(e5, "Team must have between 1 and 3 forwards") ELSE e5
  IN  [valid |-> Len(errors) = 0, errors |-> errors]

validateTeamCompositionFrontend(c) ==
  LET total == c.goalkeepers + c.defenders + c.midfielders + c.forwards
      e1 == IF total # 11
            THEN <<"Team must have exactly 11 players, got " \o NumberToString(total)>>
            ELSE <<>>
      e2 == IF c.goalkeepers < 1
            THEN Append(e1, "Team must have at least 1 goalkeeper") ELSE e1
      e3 == IF c.goalkeepers > 3
            THEN Append(e2, "Team cannot have more than 3 goalkeepers") ELSE e2
      e4 == IF c.defenders < 3 \/ c.defenders > 6
            THEN Append(e3, "Team must have between 3 and 6 defenders") ELSE e3
      e5 == IF c.midfielders < 2 \/ c.midfielders > 5
            THEN Append(e4, "Team must have between 2 and 5 midfielders") ELSE e4
      errors == IF c.forwards < 1 \/ c.forwards > 3
                THEN Append(e5, "Team must have between 1 and 3 forwards") ELSE e5
  IN  [valid |-> Len(errors) = 0, errors |-> errors]

(***************************************************************************)
(* Specification of the validator: a composition of non-negative integers  *)
(* is drawn, each action is one call on it.                                *)
(***************************************************************************)
Compositions ==
  [goalkeepers : 0..MaxCount, defenders : 0..MaxCount,
   midfielders : 0..MaxCount, forwards : 0..MaxCount]

NoStats ==
  [goals |-> Num(0), assists |-> Num(0), cleanSheets |-> Num(0),
   yellowCards |-> Num(0), redCards |-> Num(0), appearances |-> Num(0)]

InitValidation ==
  /\ composition \in Compositions
  /\ stats = NoStats
  /\ players = <<>>
  /\ ret = NoCall
  /\ NoApp

CallValidateTeamComposition ==
  /\ ret = NoCall
  /\ ret' = [fn |-> "validateTeamComposition", arg |-> Undefined,
             val |-> validateTeamComposition(composition)]
  /\ UNCHANGED <<stats, composition, players, appVars>>

CallValidateTeamCompositionFrontend ==
  /\ ret = NoCall
  /\ ret' = [fn |-> "frontend.validateTeamComposition", arg |-> Undefined,
             val |-> validateTeamCompositionFrontend(composition)]
  /\ UNCHANGED <<stats, composition, players, appVars>>

NextValidation ==
  \/ CallValidateTeamComposition
  \/ CallValidateTeamCompositionFrontend

SpecValidation == InitValidation /\ [][NextValidation]_vars

(***************************************************************************)
(* Properties of the validator, checked under SpecValidation.              *)
(***************************************************************************)
ValidateCalls == {"validateTeamComposition", "frontend.validateTeamComposition"}

\* the team rules of the README
LegalComposition(c) ==
  /\ c.goalkeepers + c.defenders + c.midfielders + c.forwards = 11
  /\ 1 <= c.goalkeepers /\ c.goalkeepers <= 3
  /\ 3 <= c.defenders /\ c.defenders <= 6
  /\ 2 <= c.midfielders /\ c.midfielders <= 5
  /\ 1 <= c.forwards /\ c.forwards <= 3

\* C6: validateTeamComposition returns valid = true iff the composition has
\* 11 players with 1..3 goalkeepers, 3..6 defenders, 2..5 midfielders and
\* 1..3 forwards, and valid is true exactly when errors is empty.
C6_ValidIffLegal ==
  ret.fn \in ValidateCalls
    => /\ ret.val.valid \in BOOLEAN
       /\ ret.val.valid <=> LegalComposition(composition)
       /\ ret.val.valid <=> (ret.val.errors = <<>>)

\* C6 witness: the legal composition 1-4-4-2 was validated and accepted.
C6_Witness ==
  /\ ret.fn \in ValidateCalls
  /\ composition = [goalkeepers |-> 1, defenders |-> 4, midfielders |-> 4, forwards |-> 2]
  /\ ret.val = [valid |-> TRUE, errors |-> <<>>]

\* the six rules in the order of the spec's table: <<violated, message>>
RuleTable(c) ==
  LET total == c.goalkeepers + c.defenders + c.midfielders + c.forwards
  IN  << <<total # 11, "Team must have exactly 11 players, got " \o NumberToString(total)>>,
         <<c.goalkeepers < 1, "Team must have at least 1 goalkeeper">>,
         <<c.goalkeepers > 3, "Team cannot have more than 3 goalkeepers">>,
         <<~(c.defenders \in 3..6), "Team must have between 3 and 6 defenders">>,
         <<~(c.midfielders \in 2..5), "Team must have between 2 and 5 midfielders">>,
         <<~(c.forwards \in 1..3), "Team must have between 1 and 3 forwards">> >>

IsViolated(rule) == rule[1]

ExpectedErrors(c) ==
  LET violated == SelectSeq(RuleTable(c), IsViolated)
  IN  [i \in 1..Len(violated) |-> violated[i][2]]

\* C7: validateTeamComposition returns for every composition of non-negative
\* integers, and errors holds exactly the messages of the violated rules,
\* one each, in the order total size, min goalkeeper, max goalkeeper,
\* defenders, midfielders, forwards; {0,4,4,2} gives the total-size message
\* (got 10) and the at-least-1-goalkeeper message.
C7_AllViolationsReportedInOrder ==
  ret.fn \in ValidateCalls
    => /\ ret.val.errors = ExpectedErrors(composition)
       /\ (composition = [goalkeepers |-> 0, defenders |-> 4,
                          midfielders |-> 4, forwards |-> 2]
             => ret.val.errors = <<"Team must have exactly 11 players, got 10",
                                   "Team must have at least 1 goalkeeper">>)
       /\ (composition = NoComposition
             => ret.val.errors = <<"Team must have exactly 11 players, got 0",
                                   "Team must have at least 1 goalkeeper",
                                   "Team must have between 3 and 6 defenders",
                                   "Team must have between 2 and 5 midfielders",
                                   "Team must have between 1 and 3 forwards">>)

\* C7 witness: a composition violating more than one rule was validated.
C7_Witness ==
  /\ ret.fn \in ValidateCalls
  /\ composition = [goalkeepers |-> 0, defenders |-> 4, midfielders |-> 4, forwards |-> 2]
  /\ Len(ret.val.errors) = 2
  /\ ~ret.val.valid

(***************************************************************************)
(* Composition counter and sorter over lists of players.                   *)
(***************************************************************************)
\* mutant: the midfielders filter tests for 'DEF'
getTeamComposition_MidfieldersAsDefenders(ps) ==
  [goalkeepers |-> Len(SelectSeq(ps, LAMBDA p : p.position = "GK")),
   defenders   |-> Len(SelectSeq(ps, LAMBDA p : p.position = "DEF")),
   midfielders |-> Len(SelectSeq(ps, LAMBDA p : p.position = "DEF")),
   forwards    |-> Len(SelectSeq(ps, LAMBDA p : p.position = "FWD"))]

\* mutant: every player who is not GK, DEF or MID counts as a forward
getTeamComposition_OthersAsForwards(ps) ==
  [goalkeepers |-> Len(SelectSeq(ps, LAMBDA p : p.position = "GK")),
   defenders   |-> Len(SelectSeq(ps, LAMBDA p : p.position = "DEF")),
   midfielders |-> Len(SelectSeq(ps, LAMBDA p : p.position = "MID")),
   forwards    |-> Len(SelectSeq(ps, LAMBDA p : p.position \notin {"GK", "DEF", "MID"}))]

getTeamComposition(ps) ==
  [goalkeepers |-> Len(SelectSeq(ps, LAMBDA p : p.position = "GK")),
   defenders   |-> Len(SelectSeq(ps, LAMBDA p : p.position = "DEF")),
   midfielders |-> Len(SelectSeq(ps, LAMBDA p : p.position = "MID")),
   forwards    |-> Len(SelectSeq(ps, LAMBDA p : p.position = "FWD"))]

\* the composition counted by POST /calculate-team-score from teamPlayers
calculateTeamScoreComposition(teamPlayers) ==
  [goalkeepers |-> Len(SelectSeq(teamPlayers, LAMBDA p : p.position = "GK")),
   defenders   |-> Len(SelectSeq(teamPlayers, LAMBDA p : p.position = "DEF")),
   midfielders |-> Len(SelectSeq(teamPlayers, LAMBDA p : p.position = "MID")),
   forwards    |-> Len(SelectSeq(teamPlayers, LAMBDA p : p.position = "FWD"))]

\* mutant: the fantasyScore and avgRating cases lack the || 0 default
sortComparator_NoDefault(a, b, sortBy) ==
  CASE sortBy = "fantasyScore" -> JsSub(b.fantasyScore, a.fantasyScore)
    [] sortBy = "goals" -> JsSub(b.stats.goals, a.stats.goals)
    [] sortBy = "assists" -> JsSub(b.stats.assists, a.stats.assists)
    [] sortBy = "appearances" -> JsSub(b.stats.appearances, a.stats.appearances)
    [] sortBy = "avgRating" -> JsSub(b.stats.avgRating, a.stats.avgRating)
    [] OTHER -> Num(0)

\* the comparator sortPlayers hands to Array.prototype.sort
sortComparator(a, b, sortBy) ==
  CASE sortBy = "fantasyScore" ->
         JsSub(JsOr(b.fantasyScore, Num(0)), JsOr(a.fantasyScore, Num(0)))
    [] sortBy = "goals" -> JsSub(b.stats.goals, a.stats.goals)
    [] sortBy = "assists" -> JsSub(b.stats.assists, a.stats.assists)
    [] sortBy = "appearances" -> JsSub(b.stats.appearances, a.stats.appearances)
    [] sortBy = "avgRating" ->
         JsSub(JsOr(b.stats.avgRating, Num(0)), JsOr(a.stats.avgRating, Num(0)))
    [] OTHER -> Num(0)

\* Array.prototype.sort (stable since ES2019; Node 18+): x sorts after e
\* when the comparator's value for (e, x) is positive, a NaN value counts
\* as 0.  Computed as a stable insertion sort.
SortsAfter(e, x, sortBy) ==
  LET v == sortComparator(e, x, sortBy)
  IN  v.t \in {"number", "Infinity"} /\ v.n > 0

RECURSIVE ArrayInsert(_, _, _)
ArrayInsert(sorted, x, sortBy) ==
  IF sorted = <<>> THEN <<x>>
  ELSE LET last == sorted[Len(sorted)]
       IN  IF SortsAfter(last, x, sortBy)
           THEN Append(ArrayInsert(SubSeq(sorted, 1, Len(sorted) - 1), x, sortBy), last)
           ELSE Append(sorted, x)

RECURSIVE ArraySort(_, _)
ArraySort(array, sortBy) ==
  IF array = <<>> THEN <<>>
  ELSE ArrayInsert(ArraySort(SubSeq(array, 1, Len(array) - 1), sortBy),
                   array[Len(array)], sortBy)

\* [...players].sort(comparator): the copy is sorted, players is not touched
sortPlayers(ps, sortBy) == ArraySort(ps, sortBy)

\* mutant: players.sort(comparator) on the argument itself
sortPlayersArrays_InPlace(ps, sortBy) ==
  [players |-> sortPlayers(ps, sortBy), returned |-> sortPlayers(ps, sortBy),
   sameArray |-> TRUE]

\* The arrays a call of sortPlayers leaves behind.  Array.prototype.sort
\* orders the array it is called on in place and returns that same array;
\* sortPlayers calls it on the spread copy, so the argument keeps its order
\* and the returned array is another object.
sortPlayersArrays(ps, sortBy) ==
  [players |-> ps, returned |-> sortPlayers(ps, sortBy), sameArray |-> FALSE]

\* String.prototype.localeCompare on the names of the pool below (plain
\* capitalised ASCII words, which every locale collates alphabetically)
LocaleOrder == <<"Alex", "Bea", "Cleo", "Dana", "Eli">>
LocaleIndex(name) == CHOOSE i \in 1..Len(LocaleOrder) : LocaleOrder[i] = name
localeCompare(a, b) ==
  IF LocaleIndex(a) < LocaleIndex(b) THEN Num(-1)
  ELSE IF LocaleIndex(a) > LocaleIndex(b) THEN Num(1) ELSE Num(0)

\* the comparator of the Dashboard's sort
dashboardComparator(a, b, sortBy) ==
  CASE sortBy = "fantasyScore" ->
         JsSub(JsOr(b.fantasyScore, Num(0)), JsOr(a.fantasyScore, Num(0)))
    [] sortBy = "goals" -> JsSub(b.stats.goals, a.stats.goals)
    [] sortBy = "assists" -> JsSub(b.stats.assists, a.stats.assists)
    [] sortBy = "appearances" -> JsSub(b.stats.appearances, a.stats.appearances)
    [] sortBy = "name" -> localeCompare(a.name, b.name)
    [] OTHER -> Num(0)

DashboardSortsAfter(e, x, sortBy) ==
  LET v == dashboardComparator(e, x, sortBy)
  IN  v.t \in {"number", "Infinity"} /\ v.n > 0

RECURSIVE DashboardInsert(_, _, _)
DashboardInsert(sorted, x, sortBy) ==
  IF sorted = <<>> THEN <<x>>
  ELSE LET last == sorted[Len(sorted)]
       IN  IF DashboardSortsAfter(last, x, sortBy)
           THEN Append(DashboardInsert(SubSeq(sorted, 1, Len(sorted) - 1), x, sortBy), last)
           ELSE Append(sorted, x)

RECURSIVE DashboardSort(_, _)
DashboardSort(array, sortBy) ==
  IF array = <<>> THEN <<>>
  ELSE DashboardInsert(DashboardSort(SubSeq(array, 1, Len(array) - 1), sortBy),
                       array[Len(array)], sortBy)

\* the Dashboard effect with filterPosition 'ALL' and an empty searchTerm:
\* filtered = [...allPlayers]; filtered.sort(comparator)
dashboardFiltered(allPlayers, sortBy) == DashboardSort(allPlayers, sortBy)

(***************************************************************************)
(* Specification of the functions over player lists: a list is drawn from  *)
(* a pool of players, each action is one call on it.  The pool has players *)
(* of every position, two with a position outside the closed set, players  *)
(* with equal keys and players without fantasyScore or avgRating.          *)
(***************************************************************************)
PlayerStats(goals, assists, appearances, avgRating) ==
  [goals |-> Num(goals), assists |-> Num(assists), cleanSheets |-> Num(0),
   yellowCards |-> Num(0), redCards |-> Num(0), appearances |-> Num(appearances),
   avgRating |-> avgRating]

PlayerA == [id |-> "a", name |-> "Dana", position |-> "GK",
            stats |-> PlayerStats(0, 1, 2, Rat(15, 2)), fantasyScore |-> Num(50)]
PlayerB == [id |-> "b", name |-> "Alex", position |-> "DEF",
            stats |-> PlayerStats(1, 1, 2, Undefined), fantasyScore |-> Num(90)]
PlayerC == [id |-> "c", name |-> "Cleo", position |-> "MID",
            stats |-> PlayerStats(1, 0, 1, Rat(15, 2)), fantasyScore |-> Undefined]
PlayerD == [id |-> "d", name |-> "Alex", position |-> "FWD",
            stats |-> PlayerStats(2, 0, 1, Num(8)), fantasyScore |-> Num(50)]
PlayerE == [id |-> "e", name |-> "Bea", position |-> "XX",
            stats |-> PlayerStats(0, 0, 0, Num(0)), fantasyScore |-> Num(0)]
PlayerF == [id |-> "f", name |-> "Eli", position |-> "gk",
            stats |-> PlayerStats(2, 1, 0, Num(8)), fantasyScore |-> Num(90)]

PlayerPool == {PlayerA, PlayerB, PlayerC, PlayerD, PlayerE, PlayerF}

PlayerLists == UNION {[1..n -> PlayerPool] : n \in 0..MaxPlayers}

\* the keys of the sortBy type, and a key outside it
SortKeys == {"fantasyScore", "goals", "assists", "appearances", "avgRating", "name"}

\* the options of the Dashboard's sort select
DashboardSortKeys == {"fantasyScore", "goals", "assists", "appearances", "name"}

InitPlayers ==
  /\ players \in PlayerLists
  /\ stats = NoStats
  /\ composition = NoComposition
  /\ ret = NoCall
  /\ NoApp

CallGetTeamComposition ==
  /\ ret = NoCall
  /\ ret' = [fn |-> "getTeamComposition", arg |-> Undefined,
             val |-> getTeamComposition(players)]
  /\ UNCHANGED <<stats, composition, players, appVars>>

CallCalculateTeamScoreComposition ==
  /\ ret = NoCall
  /\ ret' = [fn |-> "calculateTeamScore.composition", arg |-> Undefined,
             val |-> calculateTeamScoreComposition(players)]
  /\ UNCHANGED <<stats, composition, players, appVars>>

\* players is the caller's array: after the call it holds what the call left
\* in it
CallSortPlayers ==
  \E sortBy \in SortKeys :
    LET after == sortPlayersArrays(players, sortBy)
    IN  /\ ret = NoCall
        /\ ret' = [fn |-> "sortPlayers", arg |-> sortBy, val |-> after.returned,
                   sameArray |-> after.sameArray]
        /\ players' = after.players
        /\ UNCHANGED <<stats, composition, appVars>>

\* the Dashboard effect runs with players as allPlayers
RunDashboardSort ==
  \E sortBy \in DashboardSortKeys :
    /\ ret = NoCall
    /\ ret' = [fn |-> "Dashboard.sort", arg |-> sortBy,
               val |-> dashboardFiltered(players, sortBy)]
    /\ UNCHANGED <<stats, composition, players, appVars>>

NextPlayers ==
  \/ CallGetTeamComposition
  \/ CallCalculateTeamScoreComposition
  \/ CallSortPlayers
  \/ RunDashboardSort

SpecPlayers == InitPlayers /\ [][NextPlayers]_vars

(***************************************************************************)
(* Properties of the counter and the sorter, checked under SpecPlayers.    *)
(***************************************************************************)
Positions == {"GK", "DEF", "MID", "FWD"}
CompositionCalls == {"getTeamComposition", "calculateTeamScore.composition"}

\* number of indices of list whose player has position pos
CountAt(list, pos) == Cardinality({i \in 1..Len(list) : list[i].position = pos})

\* number of members whose position is outside the closed set
Unrecognized(list) == Cardinality({i \in 1..Len(list) : list[i].position \notin Positions})

CountSum(c) == c.goalkeepers + c.defenders + c.midfielders + c.forwards

\* C8: for a roster whose members all have a position in {GK, DEF, MID, FWD},
\* the four counts of getTeamComposition (and of the composition counted by
\* POST /calculate-team-score) sum to the roster length, and each count is
\* the number of members with that position.
C8_CountsSumToRosterLength ==
  (ret.fn \in CompositionCalls /\ Unrecognized(players) = 0)
    => /\ CountSum(ret.val) = Len(players)
       /\ ret.val.goalkeepers = CountAt(players, "GK")
       /\ ret.val.defenders = CountAt(players, "DEF")
       /\ ret.val.midfielders = CountAt(players, "MID")
       /\ ret.val.forwards = CountAt(players, "FWD")

\* C8 witness: a roster of recognized positions, one of them held twice.
C8_Witness ==
  /\ ret.fn \in CompositionCalls
  /\ Len(players) = 4
  /\ Unrecognized(players) = 0
  /\ ret.val.goalkeepers = 1 /\ ret.val.defenders = 2 /\ ret.val.forwards >= 1

\* C9: a member whose position is outside {GK, DEF, MID, FWD} is counted in
\* no bucket by getTeamComposition, which returns a composition all the
\* same: the counts sum to the roster length minus the number of such
\* members.
C9_UnrecognizedPositionOmitted ==
  (ret.fn = "getTeamComposition" /\ Unrecognized(players) > 0)
    => /\ CountSum(ret.val) = Len(players) - Unrecognized(players)
       /\ ret.val.goalkeepers = CountAt(players, "GK")
       /\ ret.val.defenders = CountAt(players, "DEF")
       /\ ret.val.midfielders = CountAt(players, "MID")
       /\ ret.val.forwards = CountAt(players, "FWD")

\* C9 witness: a roster with two unrecognized members was counted.
C9_Witness ==
  /\ ret.fn = "getTeamComposition"
  /\ Unrecognized(players) = 2
  /\ Len(players) = 3
  /\ CountSum(ret.val) = 1

NumericSortKeys == {"fantasyScore", "goals", "assists", "appearances", "avgRating"}

\* the value a player is ordered by: a missing fantasyScore or avgRating is 0
OrZero(v) == IF v.t = "number" THEN v ELSE Num(0)

KeyValue(p, key) ==
  CASE key = "fantasyScore" -> OrZero(p.fantasyScore)
    [] key = "goals" -> p.stats.goals
    [] key = "assists" -> p.stats.assists
    [] key = "appearances" -> p.stats.appearances
    [] key = "avgRating" -> OrZero(p.stats.avgRating)

\* x >= y for finite numbers
AtLeast(x, y) == x.n * y.d >= y.n * x.d

\* the members of list whose key value is v, in list order
WithKey(list, key, v) == SelectSeq(list, LAMBDA p : KeyValue(p, key) = v)

\* C10: for a numeric key, sortPlayers returns a permutation of players in
\* non-increasing order of the key (missing fantasyScore or avgRating = 0),
\* players of equal key keep their input order, and sorting the result again
\* by the same key returns it unchanged.
C10_SortedDescendingStable ==
  (ret.fn = "sortPlayers" /\ ret.arg \in NumericSortKeys)
    => /\ Len(ret.val) = Len(players)
       /\ \A q \in PlayerPool :
            Cardinality({i \in 1..Len(ret.val) : ret.val[i] = q})
              = Cardinality({i \in 1..Len(players) : players[i] = q})
       /\ \A i, j \in 1..Len(ret.val) :
            i < j => AtLeast(KeyValue(ret.val[i], ret.arg), KeyValue(ret.val[j], ret.arg))
       /\ \A q \in PlayerPool :
            WithKey(ret.val, ret.arg, KeyValue(q, ret.arg))
              = WithKey(players, ret.arg, KeyValue(q, ret.arg))
       /\ sortPlayers(ret.val, ret.arg) = ret.val

\* C10 witness: scenario 6 of the spec with a tie added: c (no score), a (50),
\* b (90), d (50) sorted by fantasyScore gives b, a, d, c.
C10_Witness ==
  /\ ret.fn = "sortPlayers" /\ ret.arg = "fantasyScore"
  /\ players = <<PlayerC, PlayerA, PlayerB, PlayerD>>
  /\ ret.val = <<PlayerB, PlayerA, PlayerD, PlayerC>>


SorterCalls == {"sortPlayers", "Dashboard.sort"}

\* a sorts strictly before b as a string
NameBefore(a, b) == LocaleIndex(a) < LocaleIndex(b)

WithName(list, name) == SelectSeq(list, LAMBDA p : p.name = name)

\* C12: for the key 'name' the sorter returns a permutation of the players
\* in ascending order of name, players of equal name in input order.
C12_NameSortAscending ==
  (ret.fn \in SorterCalls /\ ret.arg = "name")
    => /\ Len(ret.val) = Len(players)
       /\ \A q \in PlayerPool :
            Cardinality({i \in 1..Len(ret.val) : ret.val[i] = q})
              = Cardinality({i \in 1..Len(players) : players[i] = q})
       /\ \A i, j \in 1..Len(ret.val) :
            i < j => ~NameBefore(ret.val[j].name, ret.val[i].name)
       /\ \A q \in PlayerPool :
            WithName(ret.val, q.name) = WithName(players, q.name)

\* the same statement of the Dashboard's sort alone
C12_DashboardNameSortAscending ==
  (ret.fn = "Dashboard.sort" /\ ret.arg = "name")
    => /\ Len(ret.val) = Len(players)
       /\ \A i, j \in 1..Len(ret.val) :
            i < j => ~NameBefore(ret.val[j].name, ret.val[i].name)
       /\ \A q \in PlayerPool :
            WithName(ret.val, q.name) = WithName(players, q.name)

\* sortPlayers with 'name' returned Dana before Alex
C12_SortPlayersKeepsInputOrder ==
  /\ ret.fn = "sortPlayers" /\ ret.arg = "name"
  /\ players = <<PlayerA, PlayerB>>
  /\ ret.val = <<PlayerA, PlayerB>>

(***************************************************************************)
(* The mock data source of the backend.                                    *)
(***************************************************************************)
\* an entry of MOCK_PLAYERS (no entry has a red card); club, photo and
\* market_value are carried by no computation and are left out
MockPlayer(id, name, position, goals, assists, cleanSheets, yellowCards, appearances, avgRating) ==
  [id |-> id, name |-> name, position |-> position,
   stats |-> [goals |-> Num(goals), assists |-> Num(assists),
              cleanSheets |-> Num(cleanSheets), yellowCards |-> Num(yellowCards),
              redCards |-> Num(0), appearances |-> Num(appearances),
              avgRating |-> avgRating]]

MOCK_PLAYERS ==
  <<
    MockPlayer("p1", "Mohamed Salah", "FWD", 18, 8, 0, 3, 32, Rat(82, 10)),
    MockPlayer("p2", "Erling Haaland", "FWD", 27, 5, 0, 2, 31, Rat(85, 10)),
    MockPlayer("p3", "Harry Kane", "FWD", 20, 6, 0, 2, 30, Rat(81, 10)),
    MockPlayer("p4", "Vinicius Jr", "MID", 15, 10, 0, 5, 32, Rat(83, 10)),
    MockPlayer("p5", "Rodri", "MID", 6, 5, 12, 1, 28, Rat(84, 10)),
    MockPlayer("p6", "Jude Bellingham", "MID", 8, 7, 5, 4, 30, Rat(80, 10)),
    MockPlayer("p7", "Florian Wirtz", "MID", 11, 9, 2, 2, 28, Rat(81, 10)),
    MockPlayer("p8", "Antonio Rudiger", "DEF", 1, 0, 15, 4, 32, Rat(79, 10)),
    MockPlayer("p9", "Virgil van Dijk", "DEF", 0, 1, 18, 2, 30, Rat(80, 10)),
    MockPlayer("p10", "Kyle Walker", "DEF", 1, 2, 16, 3, 31, Rat(78, 10)),
    MockPlayer("p11", "Joao Cancelo", "DEF", 2, 5, 12, 2, 28, Rat(79, 10)),
    MockPlayer("p12", "Ederson", "GK", 0, 0, 16, 0, 30, Rat(81, 10)),
    MockPlayer("p13", "Alisson", "GK", 0, 0, 18, 1, 30, Rat(80, 10)),
    MockPlayer("p14", "Gianluigi Donnarumma", "GK", 0, 0, 14, 1, 28, Rat(78, 10))
  >>

\* { ...player, fantasyScore: calculateFantasyScore(player.stats,
\*   DEFAULT_SCORING_FORMULA) }
WithFantasyScore(player) ==
  [id |-> player.id, name |-> player.name, position |-> player.position,
   stats |-> player.stats,
   fantasyScore |-> calculateFantasyScore(player.stats, DEFAULT_SCORING_FORMULA)]

\* the data-source functions read the module's array, mock
getMockPlayers(mock) == [i \in 1..Len(mock) |-> WithFantasyScore(mock[i])]

\* mutant: the score is not computed
getMockPlayerById_ZeroScore(mock, id) ==
  LET found == SelectSeq(mock, LAMBDA p : p.id = id)
  IN  IF found = <<>> THEN Undefined
      ELSE [id |-> found[1].id, name |-> found[1].name, position |-> found[1].position,
            stats |-> found[1].stats, fantasyScore |-> Num(0)]

getMockPlayerById(mock, id) ==
  LET found == SelectSeq(mock, LAMBDA p : p.id = id)
  IN  IF found = <<>> THEN Undefined ELSE WithFantasyScore(found[1])

getMockPlayersByPosition(mock, position) ==
  SelectSeq(getMockPlayers(mock), LAMBDA p : p.position = position)

(***************************************************************************)
(* The reducers of the three front ends.  An action is a record with a     *)
(* type and a payload; a reducer maps a state and an action to the next    *)
(* state.                                                                  *)
(***************************************************************************)
Null == [t |-> "null", n |-> 0, d |-> 1]

\* a string where undefined or null may stand as well
Str(s) == [t |-> "string", s |-> s]

HasId(list, id) == \E i \in 1..Len(list) : list[i].id = id

\* array.filter((p) => p.id !== id)
WithoutId(list, id) == SelectSeq(list, LAMBDA p : p.id # id)

\* array.slice(0, end) for an end >= 0
SliceTo(list, end) == SubSeq(list, 1, IF end < Len(list) THEN end ELSE Len(list))

TeamInitialState ==
  [selectedPlayers |-> <<>>, teams |-> <<>>, currentTeamName |-> "My Fantasy Team",
   teamValidation |-> Null]

\* mutant: ADD_PLAYER without the check of 11 players
teamReducer_NoCap(state, action, now) ==
  CASE action.type = "ADD_PLAYER" ->
         IF HasId(state.selectedPlayers, action.payload.id) THEN state
         ELSE [state EXCEPT !.selectedPlayers = Append(@, action.payload)]
    [] action.type = "REMOVE_PLAYER" ->
         [state EXCEPT !.selectedPlayers = WithoutId(@, action.payload)]
    [] action.type = "CLEAR_TEAM" ->
         [state EXCEPT !.selectedPlayers = <<>>, !.teamValidation = Null]
    [] action.type = "SAVE_TEAM" ->
         [state EXCEPT
            !.teams = Append(@, [id |-> "team_" \o NumberToString(now),
                                 name |-> action.payload.name,
                                 players |-> state.selectedPlayers,
                                 totalScore |-> action.payload.totalScore]),
            !.selectedPlayers = <<>>,
            !.teamValidation = Null]
    [] OTHER -> state

\* teamReducer of TeamContext; now is the value of Date.now()
teamReducer(state, action, now) ==
  CASE action.type = "ADD_PLAYER" ->
         IF HasId(state.selectedPlayers, action.payload.id) THEN state
         ELSE IF Len(state.selectedPlayers) >= 11 THEN state
         ELSE [state EXCEPT !.selectedPlayers = Append(@, action.payload)]
    [] action.type = "REMOVE_PLAYER" ->
         [state EXCEPT !.selectedPlayers = WithoutId(@, action.payload)]
    [] action.type = "SET_SELECTED_PLAYERS" ->
         [state EXCEPT !.selectedPlayers = SliceTo(action.payload, 11)]
    [] action.type = "CLEAR_TEAM" ->
         [state EXCEPT !.selectedPlayers = <<>>, !.teamValidation = Null]
    [] action.type = "SAVE_TEAM" ->
         [state EXCEPT
            !.teams = Append(@, [id |-> "team_" \o NumberToString(now),
                                 name |-> action.payload.name,
                                 players |-> state.selectedPlayers,
                                 totalScore |-> action.payload.totalScore]),
            !.selectedPlayers = <<>>,
            !.teamValidation = Null]
    [] action.type = "DELETE_TEAM" ->
         [state EXCEPT !.teams = WithoutId(@, action.payload)]
    [] action.type = "SET_TEAM_NAME" ->
         [state EXCEPT !.currentTeamName = action.payload]
    [] action.type = "SET_TEAM_VALIDATION" ->
         [state EXCEPT !.teamValidation =
            [valid |-> action.payload.valid, errors |-> action.payload.errors]]
    [] action.type = "REORDER_PLAYERS" ->
         [state EXCEPT !.selectedPlayers = action.payload]
    [] OTHER -> state

FantasyInitialState ==
  [teamPlayers |-> <<>>, totalScore |-> Num(0), scoringFormula |-> DEFAULT_FORMULA,
   filters |-> [position |-> Undefined, sortBy |-> Undefined],
   isLoading |-> FALSE, error |-> Undefined]

\* mutant: ADD_PLAYER looks for the player in the roster before it looks at
\* the size of the roster
fantasyReducer_DuplicateFirst(state, action) ==
  CASE action.type = "ADD_PLAYER" ->
         IF HasId(state.teamPlayers, action.payload.id)
         THEN [state EXCEPT !.error = Str("Player already in team")]
         ELSE IF Len(state.teamPlayers) >= 11
         THEN [state EXCEPT !.error = Str("Team is full (max 11 players)")]
         ELSE [state EXCEPT !.teamPlayers = Append(@, action.payload),
                            !.error = Undefined]
    [] action.type = "REMOVE_PLAYER" ->
         [state EXCEPT !.teamPlayers = WithoutId(@, action.payload),
                       !.error = Undefined]
    [] action.type = "SET_TEAM_PLAYERS" -> [state EXCEPT !.teamPlayers = action.payload]
    [] action.type = "UPDATE_TOTAL_SCORE" -> [state EXCEPT !.totalScore = action.payload]
    [] action.type = "SET_FORMULA" -> [state EXCEPT !.scoringFormula = action.payload]
    [] action.type = "SET_FILTER" -> [state EXCEPT !.filters = action.payload]
    [] action.type = "SET_LOADING" -> [state EXCEPT !.isLoading = action.payload]
    [] action.type = "SET_ERROR" -> [state EXCEPT !.error = action.payload]
    [] action.type = "CLEAR_TEAM" ->
         [state EXCEPT !.teamPlayers = <<>>, !.totalScore = Num(0),
                       !.error = Undefined]
    [] OTHER -> state

\* fantasyReducer of FantasyContext; error is undefined or a message
fantasyReducer(state, action) ==
  CASE action.type = "ADD_PLAYER" ->
         IF Len(state.teamPlayers) >= 11
         THEN [state EXCEPT !.error = Str("Team is full (max 11 players)")]
         ELSE IF HasId(state.teamPlayers, action.payload.id)
         THEN [state EXCEPT !.error = Str("Player already in team")]
         ELSE [state EXCEPT !.teamPlayers = Append(@, action.payload),
                            !.error = Undefined]
    [] action.type = "REMOVE_PLAYER" ->
         [state EXCEPT !.teamPlayers = WithoutId(@, action.payload),
                       !.error = Undefined]
    [] action.type = "SET_TEAM_PLAYERS" -> [state EXCEPT !.teamPlayers = action.payload]
    [] action.type = "UPDATE_TOTAL_SCORE" -> [state EXCEPT !.totalScore = action.payload]
    [] action.type = "SET_FORMULA" -> [state EXCEPT !.scoringFormula = action.payload]
    [] action.type = "SET_FILTER" -> [state EXCEPT !.filters = action.payload]
    [] action.type = "SET_LOADING" -> [state EXCEPT !.isLoading = action.payload]
    [] action.type = "SET_ERROR" -> [state EXCEPT !.error = action.payload]
    [] action.type = "CLEAR_TEAM" ->
         [state EXCEPT !.teamPlayers = <<>>, !.totalScore = Num(0),
                       !.error = Undefined]
    [] OTHER -> state

FantasyTeamInitialState == [players |-> <<>>]

\* fantasyTeamReducer of the drag-and-drop App
fantasyTeamReducer(state, action) ==
  CASE action.type = "ADD_PLAYER" ->
         IF HasId(state.players, action.payload.id) THEN state
         ELSE [state EXCEPT !.players = Append(@, action.payload)]
    [] action.type = "REMOVE_PLAYER" ->
         [state EXCEPT !.players = WithoutId(@, action.payload)]
    [] action.type = "REORDER_PLAYERS" -> [state EXCEPT !.players = action.payload]
    [] OTHER -> state

(***************************************************************************)
(* Specification of the reducers: one of the three stores starts in its    *)
(* initial state and actions are dispatched to it.  The user picks players *)
(* from the list the backend serves, down the list from the last player    *)
(* picked, or tries the first player of the roster again; the user removes *)
(* the first player of the roster, or a player who is not in it.           *)
(***************************************************************************)
MaxTeams == 1   \* teams saved in a TeamState

\* the players the front end lists: the data of GET /players
AllPlayers == getMockPlayers(MOCK_PLAYERS)

PositionOf(player) == CHOOSE i \in 1..Len(AllPlayers) : AllPlayers[i].id = player.id

AddCandidates(roster) ==
  IF roster = <<>> THEN {AllPlayers[i] : i \in 1..Len(AllPlayers)}
  ELSE {roster[1]} \cup
       {AllPlayers[i] : i \in {PositionOf(roster[Len(roster)]) + 1} \cap 1..Len(AllPlayers)}

RemoveCandidates(roster) ==
  {"p0"} \cup (IF roster = <<>> THEN {} ELSE {roster[1].id})

\* the roster of the store
Roster ==
  CASE store.reducer = "teamReducer" -> store.state.selectedPlayers
    [] store.reducer = "fantasyReducer" -> store.state.teamPlayers
    [] store.reducer = "fantasyTeamReducer" -> store.state.players

\* Date.now() read by SAVE_TEAM: the clock has moved on since the last save
DateNow(state) == Len(state.teams) + 1

\* dispatch(action) on the store
Reduce(st, action) ==
  CASE st.reducer = "teamReducer" ->
         [st EXCEPT !.state = teamReducer(@, action, DateNow(@))]
    [] st.reducer = "fantasyReducer" -> [st EXCEPT !.state = fantasyReducer(@, action)]
    [] st.reducer = "fantasyTeamReducer" ->
         [st EXCEPT !.state = fantasyTeamReducer(@, action)]

Dispatch(action) ==
  /\ store' = Reduce(store, action)
  /\ ret' = [fn |-> "dispatch", arg |-> action.type, val |-> Undefined]
  /\ UNCHANGED <<stats, composition, players, component, server>>

InitReducers ==
  /\ store \in {[reducer |-> "teamReducer", state |-> TeamInitialState],
                [reducer |-> "fantasyReducer", state |-> FantasyInitialState],
                [reducer |-> "fantasyTeamReducer", state |-> FantasyTeamInitialState]}
  /\ component = NoComponent
  /\ server = NoServer
  /\ stats = NoStats
  /\ composition = NoComposition
  /\ players = <<>>
  /\ ret = NoCall

DispatchAddPlayer ==
  \E player \in AddCandidates(Roster) :
    Dispatch([type |-> "ADD_PLAYER", payload |-> player])

DispatchRemovePlayer ==
  \E id \in RemoveCandidates(Roster) :
    Dispatch([type |-> "REMOVE_PLAYER", payload |-> id])

DispatchClearTeam ==
  /\ store.reducer \in {"teamReducer", "fantasyReducer"}
  /\ Dispatch([type |-> "CLEAR_TEAM", payload |-> Undefined])

DispatchSaveTeam ==
  /\ store.reducer = "teamReducer"
  /\ Len(store.state.teams) < MaxTeams
  /\ Dispatch([type |-> "SAVE_TEAM",
               payload |-> [name |-> store.state.currentTeamName,
                            totalScore |-> Num(0)]])

NextReducers ==
  \/ DispatchAddPlayer
  \/ DispatchRemovePlayer
  \/ DispatchClearTeam
  \/ DispatchSaveTeam

SpecReducers == InitReducers /\ [][NextReducers]_vars

UniqueIds(list) == \A i, j \in 1..Len(list) : list[i].id = list[j].id => i = j

\* C13: in teamReducer under ADD_PLAYER, REMOVE_PLAYER, CLEAR_TEAM and
\* SAVE_TEAM and in fantasyReducer under ADD_PLAYER, REMOVE_PLAYER and
\* CLEAR_TEAM, from the empty roster, the roster never has two players with
\* the same id and has between 0 and 11 players.
C13_RosterUniqueAtMostEleven ==
  store.reducer \in {"teamReducer", "fantasyReducer"}
    => (UniqueIds(Roster) /\ Len(Roster) \in 0..11)

\* C13 witness: an ADD_PLAYER was dispatched on a roster of 11.
C13_Witness ==
  /\ store.reducer \in {"teamReducer", "fantasyReducer"}
  /\ ret.fn = "dispatch" /\ ret.arg = "ADD_PLAYER"
  /\ Len(Roster) = 11
  /\ store.reducer = "fantasyReducer" => store.state.error = Str("Team is full (max 11 players)")

\* C14: in fantasyTeamReducer under ADD_PLAYER and REMOVE_PLAYER, from the
\* empty roster, the roster never has more than 11 players and never has
\* two players with the same id.
C14_DragDropRosterAtMostEleven ==
  store.reducer = "fantasyTeamReducer"
    => (UniqueIds(Roster) /\ Len(Roster) <= 11)

(***************************************************************************)
(* POST /calculate-team-score of the backend, and the front end's client   *)
(* of it.  A response is a status and the body handed to res.json; a field *)
(* the handler does not set is not in the body.                            *)
(***************************************************************************)
\* mutant: a player listed again is not counted again
RECURSIVE SumFantasyScore_OncePerPlayer(_)
SumFantasyScore_OncePerPlayer(teamPlayers) ==
  IF teamPlayers = <<>> THEN Num(0)
  ELSE LET front == SubSeq(teamPlayers, 1, Len(teamPlayers) - 1)
           last == teamPlayers[Len(teamPlayers)]
       IN  IF \E i \in 1..Len(front) : front[i].id = last.id
           THEN SumFantasyScore_OncePerPlayer(front)
           ELSE JsAdd(SumFantasyScore_OncePerPlayer(front), JsOr(last.fantasyScore, Num(0)))

\* (sum, p) => sum + (p.fantasyScore || 0) folded from 0
RECURSIVE SumFantasyScore(_)
SumFantasyScore(teamPlayers) ==
  IF teamPlayers = <<>> THEN Num(0)
  ELSE JsAdd(SumFantasyScore(SubSeq(teamPlayers, 1, Len(teamPlayers) - 1)),
             JsOr(teamPlayers[Len(teamPlayers)].fantasyScore, Num(0)))

\* allPlayers.find((p) => p.id === id) for each id, undefined dropped
RECURSIVE FindAll(_, _)
FindAll(allPlayers, playerIds) ==
  IF playerIds = <<>> THEN <<>>
  ELSE LET found == SelectSeq(allPlayers, LAMBDA p : p.id = playerIds[1])
       IN  (IF found = <<>> THEN <<>> ELSE <<found[1]>>)
             \o FindAll(allPlayers, Tail(playerIds))

\* a value of a request: undefined, a string, or an array of items
Arr(items) == [t |-> "array", items |-> items]

\* Array.isArray(v)
IsArray(v) == v.t = "array"

calculateTeamScoreHandler(mock, body) ==
  IF ~IsArray(body.playerIds)
  THEN [status |-> 400,
        body |-> [success |-> FALSE, error |-> "Player IDs array required"]]
  ELSE LET allPlayers == getMockPlayers(mock)
           teamPlayers == FindAll(allPlayers, body.playerIds.items)
           totalScore == SumFantasyScore(teamPlayers)
           avgScore == JsDiv(totalScore, Num(Len(teamPlayers)))
           teamComposition == calculateTeamScoreComposition(teamPlayers)
           validation == validateTeamComposition(teamComposition)
       IN  IF Len(teamPlayers) # Len(body.playerIds.items)
           THEN [status |-> 400,
                 body |-> [success |-> FALSE, error |-> "One or more players not found"]]
           ELSE [status |-> 200,
                 body |-> [success |-> TRUE,
                           data |-> [totalScore |-> totalScore,
                                     avgScore |-> avgScore,
                                     playerCount |-> Len(teamPlayers),
                                     composition |-> teamComposition,
                                     isValid |-> validation.valid,
                                     errors |-> validation.errors]]]

\* ApiContext.calculateTeamScore: apiClient returns response.data.data, a
\* status outside 2xx makes the client throw and the context return null
apiCalculateTeamScore(playerIds) ==
  LET response == calculateTeamScoreHandler(MOCK_PLAYERS, [playerIds |-> Arr(playerIds)])
  IN  IF response.status = 200 THEN response.body.data ELSE Null

(***************************************************************************)
(* Specification of the TeamBuilder component on top of the TeamContext    *)
(* store.  The component keeps teamScore and loading; its effect runs when *)
(* selectedPlayers is another array than at the last render and sends      *)
(* calculateTeamScore, whose answer comes back later: pending holds the    *)
(* player ids of the requests in flight, answered in any order.            *)
(***************************************************************************)
MaxInFlight == 2   \* requests in flight at once

TeamBuilderInitialState ==
  [teamScore |-> Null, loading |-> FALSE, teamName |-> "My Fantasy Team",
   pending |-> <<>>]

Ids(list) == [i \in 1..Len(list) |-> list[i].id]

\* the calculateScore effect up to its await, on store state st and
\* component state c
calculateScoreEffect(st, c) ==
  IF Len(st.selectedPlayers) = 0
  THEN [store |-> teamReducer(st, [type |-> "SET_TEAM_VALIDATION",
                                   payload |-> [valid |-> FALSE, errors |-> <<>>]], 0),
        component |-> [c EXCEPT !.teamScore = Null]]
  ELSE [store |-> st,
        component |-> [c EXCEPT !.loading = TRUE,
                                !.pending = Append(@, Ids(st.selectedPlayers))]]

\* a dispatch to the store followed by the render it causes: the effect
\* runs if the reducer returned a state with another selectedPlayers array
\* (rosterReplaced), not if it returned the state it was given
AfterDispatch(action, rosterReplaced) ==
  LET st == teamReducer(store.state, action, DateNow(store.state))
      after == IF rosterReplaced THEN calculateScoreEffect(st, component)
               ELSE [store |-> st, component |-> component]
  IN  /\ Len(after.component.pending) <= MaxInFlight
      /\ store' = [store EXCEPT !.state = after.store]
      /\ component' = after.component

\* the component mounts on the initial store: the effect runs on the empty
\* roster
InitTeamBuilder ==
  /\ store = [reducer |-> "teamReducer",
              state |-> calculateScoreEffect(TeamInitialState,
                                             TeamBuilderInitialState).store]
  /\ component = calculateScoreEffect(TeamInitialState, TeamBuilderInitialState).component
  /\ server = NoServer
  /\ stats = NoStats
  /\ composition = NoComposition
  /\ players = <<>>
  /\ ret = NoCall

\* The user of this specification starts the roster at the second player
\* of the list and picks down the list; once the roster is full the user
\* may drop its first player to pick the next one.
BuilderAddCandidates(roster) ==
  IF roster = <<>> THEN {AllPlayers[2]} ELSE AddCandidates(roster)

\* the add button of a player card
ClickAddPlayer ==
  \E player \in BuilderAddCandidates(store.state.selectedPlayers) :
    /\ AfterDispatch([type |-> "ADD_PLAYER", payload |-> player],
                     teamReducer(store.state, [type |-> "ADD_PLAYER", payload |-> player], 0)
                       # store.state)
    /\ ret' = NoCall
    /\ UNCHANGED <<stats, composition, players, server>>

\* the remove button of a roster row
ClickRemovePlayer ==
  /\ Len(store.state.selectedPlayers) = 11
  /\ AfterDispatch([type |-> "REMOVE_PLAYER", payload |-> store.state.selectedPlayers[1].id],
                   TRUE)
  /\ ret' = NoCall
  /\ UNCHANGED <<stats, composition, players, server>>

\* the Clear Team button, rendered for a roster that is not empty
ClickClearTeam ==
  /\ Len(store.state.selectedPlayers) > 0
  /\ AfterDispatch([type |-> "CLEAR_TEAM", payload |-> Undefined], TRUE)
  /\ ret' = NoCall
  /\ UNCHANGED <<stats, composition, players, server>>

\* teamScore?.isValid
IsValidScore(teamScore) == teamScore # Null /\ teamScore.isValid

\* disabled={teamSize !== 11 || loading || !teamScore?.isValid}
SaveDisabled ==
  \/ Len(store.state.selectedPlayers) # 11
  \/ component.loading
  \/ ~IsValidScore(component.teamScore)

\* the Save Team button: handleSaveTeam, then the effect on the roster
\* SAVE_TEAM has emptied.  ret is the SAVE_TEAM dispatched: the roster it
\* found and its totalScore.
ClickSaveTeam ==
  /\ Len(store.state.selectedPlayers) > 0
  /\ ~SaveDisabled
  /\ Len(store.state.teams) < MaxTeams
  /\ ~(Len(store.state.selectedPlayers) < 11)
  /\ ~(component.teamScore # Null /\ ~component.teamScore.isValid)
  /\ LET totalScore == IF component.teamScore = Null THEN Num(0)
                       ELSE JsOr(component.teamScore.totalScore, Num(0))
     IN  /\ AfterDispatch([type |-> "SAVE_TEAM",
                           payload |-> [name |-> component.teamName,
                                        totalScore |-> totalScore]], TRUE)
         /\ ret' = [fn |-> "SAVE_TEAM", arg |-> store.state.selectedPlayers,
                    val |-> totalScore]
  /\ UNCHANGED <<stats, composition, players, server>>

\* the rest of calculateScore after its await, for the request at index i
\* of pending and the result the context returned
AfterAwait(i, result) ==
  LET rest == [j \in 1..(Len(component.pending) - 1) |->
                 IF j < i THEN component.pending[j] ELSE component.pending[j + 1]]
  IN  /\ component' = [component EXCEPT
                         !.pending = rest,
                         !.loading = FALSE,
                         !.teamScore = IF result # Null THEN result ELSE @]
      /\ store' = IF result # Null
                  THEN [store EXCEPT !.state =
                          teamReducer(@, [type |-> "SET_TEAM_VALIDATION",
                                          payload |-> [valid |-> result.isValid,
                                                       errors |-> result.errors]], 0)]
                  ELSE store
      /\ ret' = NoCall
      /\ UNCHANGED <<stats, composition, players, server>>

\* the backend answers a request in flight
ReceiveTeamScore ==
  \E i \in 1..Len(component.pending) :
    AfterAwait(i, apiCalculateTeamScore(component.pending[i]))

\* a request in flight fails (network error, timeout): the context returns
\* null
FailTeamScore ==
  \E i \in 1..Len(component.pending) : AfterAwait(i, Null)

NextTeamBuilder ==
  \/ ClickAddPlayer
  \/ ClickRemovePlayer
  \/ ClickClearTeam
  \/ ClickSaveTeam
  \/ ReceiveTeamScore
  \/ FailTeamScore

SpecTeamBuilder == InitTeamBuilder /\ [][NextTeamBuilder]_vars

\* the per-position counts of a roster
CompositionOf(list) ==
  [goalkeepers |-> CountAt(list, "GK"), defenders |-> CountAt(list, "DEF"),
   midfielders |-> CountAt(list, "MID"), forwards |-> CountAt(list, "FWD")]

\* C15: every SAVE_TEAM dispatched by TeamBuilder finds a roster of exactly
\* 11 players whose composition passes validateTeamComposition, whatever the
\* order of roster edits, Save clicks and answers or failures of the
\* calculateTeamScore requests.
C15_SaveOnlyWhenEligible ==
  ret.fn = "SAVE_TEAM"
    => (Len(ret.arg) = 11 /\ LegalComposition(CompositionOf(ret.arg)))

\* sum of the fantasyScore values of a list, a missing one counted as 0
RECURSIVE ScoreSum(_)
ScoreSum(list) ==
  IF list = <<>> THEN 0 ELSE OrZero(Head(list).fantasyScore).n + ScoreSum(Tail(list))

\* C16: every team in TeamState.teams has totalScore equal to the sum of
\* the fantasyScore values of the players stored in it.
C16_SavedTotalIsRosterSum ==
  store.reducer = "teamReducer"
    => \A i \in 1..Len(store.state.teams) :
         store.state.teams[i].totalScore = Num(ScoreSum(store.state.teams[i].players))

(***************************************************************************)
(* The backend server: CacheService on node-cache, and the handlers.  The  *)
(* server state is the clock (Date.now(), in ms), the cache and the        *)
(* module's array MOCK_PLAYERS.  The cache maps a key to the value v and   *)
(* the time t of the entry.                                                *)
(***************************************************************************)
\* new NodeCache({ stdTTL: 600, ... }) and the ttl the handlers pass to set
StdTTL == 600

\* mutant: an entry is served whatever its age
NodeCacheCheck_NeverExpires(entry, now) == TRUE

\* node-cache _check(key, data): the entry is dropped when its time t is
\* not 0 and lies before Date.now()
NodeCacheCheck(entry, now) == ~(entry.t # 0 /\ entry.t < now)

\* the cache without the keys in gone
CacheWithout(cache, gone) == [k \in DOMAIN cache \ gone |-> cache[k]]

\* cacheService.get(key): the value, or undefined; an entry that failed the
\* check is deleted
CacheGet(cache, key, now) ==
  IF key \notin DOMAIN cache THEN [cache |-> cache, value |-> Undefined]
  ELSE IF NodeCacheCheck(cache[key], now) THEN [cache |-> cache, value |-> cache[key].v]
  ELSE [cache |-> CacheWithout(cache, {key}), value |-> Undefined]

\* cacheService.set(key, value, ttl) for a ttl in seconds that is not 0
CacheSet(cache, key, value, ttl, now) ==
  [k \in DOMAIN cache \cup {key} |->
     IF k = key THEN [v |-> value, t |-> now + ttl * 1000] ELSE cache[k]]

\* the periodic check of node-cache (checkperiod: 120) deletes the entries
\* that fail the check
CacheCheckData(cache, now) ==
  CacheWithout(cache, {k \in DOMAIN cache : ~NodeCacheCheck(cache[k], now)})

\* a query or body value that is a string other than ''
IsSet(v) == v.t = "string" /\ v.s # ""

ValidPositions == {"GK", "DEF", "MID", "FWD"}

\* JSON.stringify(req.query) for a query of position and sortBy
JsonQuery(query) ==
  LET position == IF query.position.t = "string"
                  THEN "\"position\":\"" \o query.position.s \o "\"" ELSE ""
      sortBy == IF query.sortBy.t = "string"
                THEN "\"sortBy\":\"" \o query.sortBy.s \o "\"" ELSE ""
      comma == IF position # "" /\ sortBy # "" THEN "," ELSE ""
  IN  "{" \o position \o comma \o sortBy \o "}"

Cached(srv, got) ==
  [server |-> [srv EXCEPT !.cache = got.cache],
   response |-> [status |-> 200, body |-> got.value]]

Fresh(srv, got, key, body) ==
  [server |-> [srv EXCEPT !.cache = CacheSet(got.cache, key, body, StdTTL, srv.now)],
   response |-> [status |-> 200, body |-> body]]

NotStored(srv, got, status, body) ==
  [server |-> [srv EXCEPT !.cache = got.cache],
   response |-> [status |-> status, body |-> body]]

\* GET /players
getPlayersHandler(srv, req) ==
  LET cacheKey == "players:" \o JsonQuery(req.query)
      got == CacheGet(srv.cache, cacheKey, srv.now)
      all == getMockPlayers(srv.MOCK_PLAYERS)
      filtered == IF IsSet(req.query.position) /\ req.query.position.s \in ValidPositions
                  THEN SelectSeq(all, LAMBDA p : p.position = req.query.position.s)
                  ELSE all
      sorted == IF IsSet(req.query.sortBy)
                   /\ req.query.sortBy.s \in {"fantasyScore", "goals", "assists", "appearances"}
                THEN sortPlayers(filtered, req.query.sortBy.s)
                ELSE filtered
  IN  IF got.value # Undefined THEN Cached(srv, got)
      ELSE Fresh(srv, got, cacheKey, [success |-> TRUE, data |-> sorted])

\* GET /players/:id
getPlayerHandler(srv, req) ==
  LET cacheKey == "player:" \o req.params.id
      got == CacheGet(srv.cache, cacheKey, srv.now)
      player == getMockPlayerById(srv.MOCK_PLAYERS, req.params.id)
  IN  IF got.value # Undefined THEN Cached(srv, got)
      ELSE IF player = Undefined
      THEN NotStored(srv, got, 404, [success |-> FALSE, error |-> "Player not found"])
      ELSE Fresh(srv, got, cacheKey, [success |-> TRUE, data |-> player])

\* mutant: an unknown id is answered 200 with no data
getFantasyScoreHandler_OkWhenUnknown(srv, req) ==
  LET cacheKey == "player:fantasy:" \o req.params.id
      got == CacheGet(srv.cache, cacheKey, srv.now)
      player == getMockPlayerById(srv.MOCK_PLAYERS, req.params.id)
  IN  IF got.value # Undefined THEN Cached(srv, got)
      ELSE IF player = Undefined
      THEN NotStored(srv, got, 200, [success |-> TRUE, data |-> Undefined])
      ELSE Fresh(srv, got, cacheKey,
                 [success |-> TRUE,
                  data |-> [fantasyScore |-> calculateFantasyScore(player.stats, DEFAULT_SCORING_FORMULA),
                            avgScore |-> calculateAverageScore(player.stats, DEFAULT_SCORING_FORMULA)]])

\* GET /players/:id/fantasyScore; req.query.formula is undefined or a formula
getFantasyScoreHandler(srv, req) ==
  LET cacheKey == "player:fantasy:" \o req.params.id
      got == CacheGet(srv.cache, cacheKey, srv.now)
      player == getMockPlayerById(srv.MOCK_PLAYERS, req.params.id)
      formula == IF req.query.formula = Undefined THEN DEFAULT_SCORING_FORMULA
                 ELSE req.query.formula
  IN  IF got.value # Undefined THEN Cached(srv, got)
      ELSE IF player = Undefined
      THEN NotStored(srv, got, 404, [success |-> FALSE, error |-> "Player not found"])
      ELSE Fresh(srv, got, cacheKey,
                 [success |-> TRUE,
                  data |-> [fantasyScore |-> calculateFantasyScore(player.stats, formula),
                            avgScore |-> calculateAverageScore(player.stats, formula)]])

\* POST /validate-team; req.body.composition is undefined or a composition
validateTeamHandler(srv, req) ==
  IF req.body.composition = Undefined
  THEN [server |-> srv,
        response |-> [status |-> 400,
                      body |-> [success |-> FALSE, error |-> "Team composition required"]]]
  ELSE [server |-> srv,
        response |-> [status |-> 200,
                      body |-> [success |-> TRUE,
                                data |-> validateTeamComposition(req.body.composition)]]]

\* parseInt(v) of a query value: the decimal strings of -99..99 parse to
\* their number, undefined and the other strings used here to NaN
ParseInt(v) ==
  IF v.t = "string" /\ \E n \in -99..99 : NumberToString(n) = v.s
  THEN Num(CHOOSE n \in -99..99 : NumberToString(n) = v.s)
  ELSE NaN

\* array.slice(0, end): a negative end counts from the end of the array
Slice0(array, end) ==
  LET stop == IF end < 0 THEN Len(array) + end ELSE end
  IN  SubSeq(array, 1, IF stop > Len(array) THEN Len(array) ELSE stop)

\* getMockPlayers().sort(by fantasyScore, descending).slice(0, limit): the
\* array sorted in place is the fresh one of getMockPlayers
getTopMockPlayers(mock, limit) ==
  Slice0(ArraySort(getMockPlayers(mock), "fantasyScore"), limit)

\* GET /topPlayers
getTopPlayersHandler(srv, req) ==
  LET parsed == JsOr(ParseInt(req.query.limit), Num(10))
      limit == IF parsed.n < 50 THEN parsed.n ELSE 50
      cacheKey == "topPlayers:" \o NumberToString(limit) \o ":"
                    \o (IF IsSet(req.query.position) THEN req.query.position.s ELSE "all")
      got == CacheGet(srv.cache, cacheKey, srv.now)
      top == getTopMockPlayers(srv.MOCK_PLAYERS, limit)
      filtered == IF IsSet(req.query.position) /\ req.query.position.s \in ValidPositions
                  THEN SelectSeq(top, LAMBDA p : p.position = req.query.position.s)
                  ELSE top
  IN  IF got.value # Undefined THEN Cached(srv, got)
      ELSE Fresh(srv, got, cacheKey, [success |-> TRUE, data |-> filtered])

\* POST /calculate-team-score
postCalculateTeamScoreHandler(srv, req) ==
  [server |-> srv, response |-> calculateTeamScoreHandler(srv.MOCK_PLAYERS, req.body)]

\* GET /players/:id/stats
getPlayerStatsHandler(srv, req) ==
  LET cacheKey == "player:stats:" \o req.params.id
      got == CacheGet(srv.cache, cacheKey, srv.now)
      player == getMockPlayerById(srv.MOCK_PLAYERS, req.params.id)
  IN  IF got.value # Undefined THEN Cached(srv, got)
      ELSE IF player = Undefined
      THEN NotStored(srv, got, 404, [success |-> FALSE, error |-> "Player not found"])
      ELSE Fresh(srv, got, cacheKey, [success |-> TRUE, data |-> player.stats])

\* POST /clear-cache: cacheService.clear() is flushAll
clearCacheHandler(srv, req) ==
  [server |-> [srv EXCEPT !.cache = <<>>],
   response |-> [status |-> 200,
                 body |-> [success |-> TRUE, message |-> "Cache cleared"]]]

\* the handler the application routes a request to
Handle(srv, req) ==
  CASE req.route = "GET /players" -> getPlayersHandler(srv, req)
    [] req.route = "GET /players/:id" -> getPlayerHandler(srv, req)
    [] req.route = "GET /players/:id/fantasyScore" -> getFantasyScoreHandler(srv, req)
    [] req.route = "GET /topPlayers" -> getTopPlayersHandler(srv, req)
    [] req.route = "POST /validate-team" -> validateTeamHandler(srv, req)
    [] req.route = "POST /calculate-team-score" -> postCalculateTeamScoreHandler(srv, req)
    [] req.route = "GET /players/:id/stats" -> getPlayerStatsHandler(srv, req)
    [] req.route = "POST /clear-cache" -> clearCacheHandler(srv, req)

(***************************************************************************)
(* Specification of the backend server: requests are served one at a time  *)
(* (a handler has no await), the clock advances between them and the       *)
(* periodic check of the cache runs.  ret is the request served in the     *)
(* last step and the response to it.                                       *)
(***************************************************************************)
MaxClock == 3   \* steps of the clock in a run

\* the clock is read at multiples of 5 minutes
ClockStep == 300 * 1000

NoQuery == [position |-> Undefined, sortBy |-> Undefined, limit |-> Undefined,
            formula |-> Undefined]
NoBody == [composition |-> Undefined, playerIds |-> Undefined]

Request(route, id, query, body) ==
  [body |-> body, query |-> query, params |-> [id |-> id], route |-> route]

\* ids of requests: a player and an id of no player
RequestIds == {"p1", "p0"}

InitBackend ==
  /\ server = [now |-> 0, cache |-> <<>>, MOCK_PLAYERS |-> MOCK_PLAYERS]
  /\ store = NoStore
  /\ component = NoComponent
  /\ stats = NoStats
  /\ composition = NoComposition
  /\ players = <<>>
  /\ ret = NoCall

Serve(req) ==
  LET served == Handle(server, req)
  IN  /\ server' = served.server
      /\ ret' = [fn |-> req.route, arg |-> req, val |-> served.response]
      /\ UNCHANGED <<stats, composition, players, store, component>>

RequestGetPlayers ==
  Serve(Request("GET /players", "", NoQuery, NoBody))

RequestGetPlayer ==
  \E id \in RequestIds : Serve(Request("GET /players/:id", id, NoQuery, NoBody))

RequestGetFantasyScore ==
  \E id \in RequestIds :
    Serve(Request("GET /players/:id/fantasyScore", id, NoQuery, NoBody))

RequestGetTopPlayers ==
  Serve(Request("GET /topPlayers", "",
                [NoQuery EXCEPT !.limit = Str("3"), !.position = Str("MID")], NoBody))

RequestValidateTeam ==
  \E c \in {Undefined,
             [goalkeepers |-> 1, defenders |-> 4, midfielders |-> 4, forwards |-> 2],
             [goalkeepers |-> 0, defenders |-> 4, midfielders |-> 4, forwards |-> 4]} :
    Serve(Request("POST /validate-team", "", NoQuery, [NoBody EXCEPT !.composition = c]))

RequestCalculateTeamScore ==
  \E playerIds \in {Undefined, Str("p1"), Arr(<<"p1", "p0">>),
                     Arr(<<"p2", "p3", "p4", "p5", "p6", "p7", "p8", "p9", "p10",
                           "p11", "p12">>)} :
    Serve(Request("POST /calculate-team-score", "", NoQuery,
                  [NoBody EXCEPT !.playerIds = playerIds]))

\* a direct call of the data-source function no handler uses
CallGetMockPlayersByPosition ==
  \E position \in {"GK", "FWD"} :
    /\ ret' = [fn |-> "getMockPlayersByPosition", arg |-> position,
               val |-> getMockPlayersByPosition(server.MOCK_PLAYERS, position)]
    /\ UNCHANGED <<stats, composition, players, store, component, server>>

\* step milliseconds pass and no request is served
Elapse(step) ==
  /\ server.now + step <= MaxClock * ClockStep
  /\ server' = [server EXCEPT !.now = @ + step]
  /\ ret' = NoCall
  /\ UNCHANGED <<stats, composition, players, store, component>>

\* time passes
Tick == Elapse(ClockStep)

\* the timer of node-cache fires
CheckData ==
  /\ server' = [server EXCEPT !.cache = CacheCheckData(@, server.now)]
  /\ ret' = NoCall
  /\ UNCHANGED <<stats, composition, players, store, component>>

NextBackend ==
  \/ RequestGetPlayers
  \/ RequestGetPlayer
  \/ RequestGetFantasyScore
  \/ RequestGetTopPlayers
  \/ RequestValidateTeam
  \/ RequestCalculateTeamScore
  \/ CallGetMockPlayersByPosition
  \/ Tick
  \/ CheckData

SpecBackend == InitBackend /\ [][NextBackend]_vars

\* the routes whose responses are ApiResponse envelopes by C17
EnvelopeRoutes ==
  {"GET /players", "GET /players/:id/fantasyScore", "POST /validate-team",
   "POST /calculate-team-score"}

\* body is { success: true, data } or { success: false, error: string }
IsApiResponse(body) ==
  /\ body.success \in BOOLEAN
  /\ body.success => "data" \in DOMAIN body /\ "error" \notin DOMAIN body
  /\ ~body.success =>
       "error" \in DOMAIN body /\ body.error \in STRING /\ "data" \notin DOMAIN body

\* C17: every response of GET /players, GET /players/:id/fantasyScore,
\* POST /validate-team and POST /calculate-team-score has a boolean success;
\* with success true it carries data and no error, with success false an
\* error string and no data; an unknown player id is answered 404 'Player
\* not found', a missing composition and playerIds that is no array 400.
C17_ResponseEnvelope ==
  ret.fn \in EnvelopeRoutes =>
    /\ IsApiResponse(ret.val.body)
    /\ (ret.fn = "GET /players/:id/fantasyScore"
          /\ getMockPlayerById(MOCK_PLAYERS, ret.arg.params.id) = Undefined)
         => (ret.val.status = 404 /\ ~ret.val.body.success
             /\ ret.val.body.error = "Player not found")
    /\ (ret.fn = "POST /validate-team" /\ ret.arg.body.composition = Undefined)
         => (ret.val.status = 400 /\ ~ret.val.body.success)
    /\ (ret.fn = "POST /calculate-team-score" /\ ~IsArray(ret.arg.body.playerIds))
         => (ret.val.status = 400 /\ ~ret.val.body.success)

\* the score of an id of no player was asked and refused
C17_Witness ==
  /\ ret.fn = "GET /players/:id/fantasyScore"
  /\ ret.arg.params.id = "p0"
  /\ ret.val = [status |-> 404,
                body |-> [success |-> FALSE, error |-> "Player not found"]]
  /\ "player:fantasy:p1" \in DOMAIN server.cache

\* the stats MOCK_PLAYERS stores for the player of this id
StoredStats(id) == (CHOOSE m \in {MOCK_PLAYERS[i] : i \in 1..Len(MOCK_PLAYERS)} : m.id = id).stats

\* player carries the stored stats and the score of them under the default
\* formula
IsProjection(player) ==
  /\ player.stats = StoredStats(player.id)
  /\ player.fantasyScore = calculateFantasyScore(player.stats, DEFAULT_SCORING_FORMULA)
  /\ player.fantasyScore = Num(Max0(RawScore(player.stats, FourThreeTwoOneThree)))

\* the players the last call returned
ReturnedPlayers ==
  IF ret.fn \in {"GET /players", "GET /topPlayers"} /\ ret.val.body.success
  THEN {ret.val.body.data[i] : i \in 1..Len(ret.val.body.data)}
  ELSE IF ret.fn = "GET /players/:id" /\ ret.val.body.success
  THEN {ret.val.body.data}
  ELSE IF ret.fn = "getMockPlayersByPosition"
  THEN {ret.val[i] : i \in 1..Len(ret.val)}
  ELSE {}

CACHE_DURATION == 5 * 60 * 1000

\* mutant: a stored entry is served whatever its age
getCachedData_NoExpiry(playerCache, key, now) ==
  IF key \in DOMAIN playerCache THEN playerCache[key].data ELSE Null

\* getCachedData(key) when Date.now() is now
getCachedData(playerCache, key, now) ==
  IF key \in DOMAIN playerCache /\ now - playerCache[key].timestamp < CACHE_DURATION
  THEN playerCache[key].data
  ELSE Null

\* playerCache after setCachedData(key, data) when Date.now() is now
setCachedData(playerCache, key, data, now) ==
  [k \in DOMAIN playerCache \cup {key} |->
     IF k = key THEN [data |-> data, timestamp |-> now] ELSE playerCache[k]]

\* club and photo are carried by no computation and are left out
mockPlayers ==
  <<[id |-> "1", name |-> "Lionel Messi", position |-> "FWD"],
    [id |-> "2", name |-> "Cristiano Ronaldo", position |-> "FWD"],
    [id |-> "3", name |-> "Virgil van Dijk", position |-> "DEF"],
    [id |-> "4", name |-> "Kevin De Bruyne", position |-> "MID"]>>

RouterStats(goals, assists, appearances, cleanSheets, yellowCards, redCards) ==
  [goals |-> Num(goals), assists |-> Num(assists), appearances |-> Num(appearances),
   cleanSheets |-> Num(cleanSheets), yellowCards |-> Num(yellowCards),
   redCards |-> Num(redCards)]

mockPlayerStats ==
  [id \in {"1", "2", "3", "4"} |->
     CASE id = "1" -> RouterStats(30, 20, 40, 0, 2, 0)
       [] id = "2" -> RouterStats(25, 10, 35, 0, 5, 1)
       [] id = "3" -> RouterStats(3, 5, 45, 20, 3, 0)
       [] id = "4" -> RouterStats(15, 25, 38, 0, 4, 0)]

\* validatePlayerId lets the request through
validatePlayerId(id) == \E i \in 1..Len(mockPlayers) : mockPlayers[i].id = id

\* return res.json(cached)
RouterCached(srv, cached) ==
  [server |-> srv, response |-> [status |-> 200, body |-> cached]]

\* setCachedData(key, computed); res.json(computed)
RouterFresh(srv, key, computed) ==
  [server |-> [srv EXCEPT !.playerCache =
                 setCachedData(srv.playerCache, key, computed, srv.now)],
   response |-> [status |-> 200, body |-> computed]]

\* res.status(404).send(message)
RouterRefusal(srv, message) ==
  [server |-> srv, response |-> [status |-> 404, body |-> Str(message)]]

\* router GET /
routerGetPlayersHandler(srv, req) ==
  LET cachedPlayers == getCachedData(srv.playerCache, "allPlayers", srv.now)
  IN  IF cachedPlayers # Null THEN RouterCached(srv, cachedPlayers)
      ELSE RouterFresh(srv, "allPlayers", Arr(mockPlayers))

\* router GET /:id/stats
routerGetStatsHandler(srv, req) ==
  LET id == req.params.id
      cacheKey == "playerStats-" \o id
      cachedStats == getCachedData(srv.playerCache, cacheKey, srv.now)
  IN  IF ~validatePlayerId(id) THEN RouterRefusal(srv, "Player not found")
      ELSE IF cachedStats # Null THEN RouterCached(srv, cachedStats)
      ELSE IF id \in DOMAIN mockPlayerStats
      THEN RouterFresh(srv, cacheKey, mockPlayerStats[id])
      ELSE RouterRefusal(srv, "Player stats not found")

\* router GET /:id/fantasyScore
routerGetFantasyScoreHandler(srv, req) ==
  LET id == req.params.id
      cacheKey == "fantasyScore-" \o id
      cachedScore == getCachedData(srv.playerCache, cacheKey, srv.now)
  IN  IF ~validatePlayerId(id) THEN RouterRefusal(srv, "Player not found")
      ELSE IF cachedScore # Null THEN RouterCached(srv, cachedScore)
      ELSE IF id \in DOMAIN mockPlayerStats
      THEN RouterFresh(srv, cacheKey,
                       [id |-> id,
                        fantasyScore |->
                          calculateFantasyScoreCachedRouter(mockPlayerStats[id])])
      ELSE RouterRefusal(srv, "Player stats not found")

\* position.toUpperCase() of the position strings requests carry
ToUpperCase(s) ==
  CASE s = "def" -> "DEF"
    [] s = "noPosition" -> "NOPOSITION"
    [] OTHER -> s

\* the list GET /topPlayers of a router computes: the players with stats
\* and score (score[id] is the router's calculateFantasyScore of the stats
\* of player id), filtered by the upper-cased position, sorted by score in
\* descending order and cut at parseInt(limit, 10) when that is a number
topPlayersList(query, score) ==
  LET playersWithScores ==
        [i \in 1..Len(mockPlayers) |->
           [id |-> mockPlayers[i].id, name |-> mockPlayers[i].name,
            position |-> mockPlayers[i].position,
            stats |-> mockPlayerStats[mockPlayers[i].id],
            fantasyScore |-> score[mockPlayers[i].id]]]
      filteredPlayers ==
        IF IsSet(query.position)
        THEN SelectSeq(playersWithScores,
                       LAMBDA player : player.position = ToUpperCase(query.position.s))
        ELSE playersWithScores
      sorted == ArraySort(filteredPlayers, "fantasyScore")
      parsedLimit == ParseInt(query.limit)
  IN  IF IsSet(query.limit) /\ parsedLimit # NaN THEN Slice0(sorted, parsedLimit.n)
      ELSE sorted

\* router GET /topPlayers
routerGetTopPlayersHandler(srv, req) ==
  LET cacheKey == "topPlayers-"
                    \o (IF IsSet(req.query.limit) THEN req.query.limit.s ELSE "noLimit")
                    \o "-"
                    \o (IF IsSet(req.query.position) THEN req.query.position.s
                        ELSE "noPosition")
      cachedTopPlayers == getCachedData(srv.playerCache, cacheKey, srv.now)
  IN  IF cachedTopPlayers # Null THEN RouterCached(srv, cachedTopPlayers)
      ELSE RouterFresh(srv, cacheKey,
                       Arr(topPlayersList(req.query,
                                          [id \in DOMAIN mockPlayerStats |->
                                             calculateFantasyScoreCachedRouter(mockPlayerStats[id])])))

HandleRouter(srv, req) ==
  CASE req.route = "router GET /" -> routerGetPlayersHandler(srv, req)
    [] req.route = "router GET /:id/stats" -> routerGetStatsHandler(srv, req)
    [] req.route = "router GET /:id/fantasyScore" -> routerGetFantasyScoreHandler(srv, req)
    [] req.route = "router GET /topPlayers" -> routerGetTopPlayersHandler(srv, req)

(***************************************************************************)
(* Specification of the two caches under one clock: the backend server     *)
(* answers GET /players/:id through the cache service, the cached router   *)
(* answers through playerCache, and the clock advances between requests.   *)
(***************************************************************************)
InitCaching ==
  /\ server = [now |-> 0, cache |-> <<>>, MOCK_PLAYERS |-> MOCK_PLAYERS,
               playerCache |-> <<>>]
  /\ store = NoStore
  /\ component = NoComponent
  /\ stats = NoStats
  /\ composition = NoComposition
  /\ players = <<>>
  /\ ret = NoCall

ServeRouter(req) ==
  LET served == HandleRouter(server, req)
  IN  /\ server' = served.server
      /\ ret' = [fn |-> req.route, arg |-> req, val |-> served.response]
      /\ UNCHANGED <<stats, composition, players, store, component>>

RequestBackendPlayer == Serve(Request("GET /players/:id", "p1", NoQuery, NoBody))

RequestRouterPlayers == ServeRouter(Request("router GET /", "", NoQuery, NoBody))

RequestRouterStats ==
  ServeRouter(Request("router GET /:id/stats", "1", NoQuery, NoBody))

RequestRouterFantasyScore ==
  \E id \in {"1", "9"} :
    ServeRouter(Request("router GET /:id/fantasyScore", id, NoQuery, NoBody))

\* half a step of the clock passes
TickHalf == Elapse(ClockStep \div 2)

NextCaching ==
  \/ RequestBackendPlayer
  \/ RequestRouterPlayers
  \/ RequestRouterStats
  \/ RequestRouterFantasyScore
  \/ TickHalf
  \/ CheckData

SpecCaching == InitCaching /\ [][NextCaching]_vars

\* the key under which the backend handler of the request caches
BackendKey(req) == "player:" \o req.params.id

\* the key under which the router handler of the request caches
RouterKey(req) ==
  CASE req.route = "router GET /" -> "allPlayers"
    [] req.route = "router GET /:id/stats" -> "playerStats-" \o req.params.id
    [] req.route = "router GET /:id/fantasyScore" -> "fantasyScore-" \o req.params.id

\* this step serves a request of the cached router that passes validatePlayerId
RouterStep ==
  /\ ret'.fn \in {"router GET /", "router GET /:id/stats", "router GET /:id/fantasyScore"}
  /\ ret'.fn # "router GET /" => validatePlayerId(ret'.arg.params.id)

\* the router serves the stored data iff the entry is younger than
\* CACHE_DURATION; on a miss it computes and stores with the time of the miss
RouterServesWhileYoung ==
  RouterStep =>
    LET key == RouterKey(ret'.arg)
    IN  IF key \in DOMAIN server.playerCache
           /\ server.now - server.playerCache[key].timestamp < 5 * 60 * 1000
        THEN /\ getCachedData(server.playerCache, key, server.now)
                  = server.playerCache[key].data
             /\ ret'.val.body = server.playerCache[key].data
             /\ server'.playerCache = server.playerCache
        ELSE /\ getCachedData(server.playerCache, key, server.now) = Null
             /\ server'.playerCache[key] = [data |-> ret'.val.body, timestamp |-> server.now]

\* this step serves a backend request whose key is in the cache
BackendStep ==
  /\ ret'.fn = "GET /players/:id"
  /\ BackendKey(ret'.arg) \in DOMAIN server.cache

\* the time at which the entry of the key was set with the ttl of 600 s
SetAt(key) == server.cache[key].t - 600 * 1000

\* the response of this step is the entry the cache held for the key
ReturnedByGet(key) ==
  /\ server'.cache[key] = server.cache[key]
  /\ ret'.val.body = server.cache[key].v

InitAgreement == Init \/ InitValidation

NextAgreement == Next \/ NextValidation

SpecAgreement == InitAgreement /\ [][NextAgreement]_vars

\* C19: the frontend and backend copies of the core agree on every input:
\* for all stats and formulas calculateFantasyScore and calculateAverageScore
\* of the frontend return the value of the backend functions, and for all
\* compositions validateTeamComposition of the frontend returns the valid
\* flag and the errors list (same messages, same order) of the backend one.
C19_CopiesAgree ==
  /\ (ret.fn = "frontend.calculateFantasyScore" /\ ret.arg # Undefined)
       => ret.val = calculateFantasyScore(stats, ret.arg)
  /\ (ret.fn = "calculateFantasyScore" /\ ret.arg # Undefined)
       => ret.val = calculateFantasyScoreFrontend(stats, ret.arg)
  /\ (ret.fn = "frontend.calculateAverageScore" /\ ret.arg # Undefined)
       => ret.val = calculateAverageScore(stats, ret.arg)
  /\ (ret.fn = "calculateAverageScore" /\ ret.arg # Undefined)
       => ret.val = calculateAverageScoreFrontend(stats, ret.arg)
  /\ ret.fn = "frontend.validateTeamComposition"
       => /\ ret.val.valid = validateTeamComposition(composition).valid
          /\ ret.val.errors = validateTeamComposition(composition).errors
  /\ ret.fn = "validateTeamComposition"
       => /\ ret.val.valid = validateTeamCompositionFrontend(composition).valid
          /\ ret.val.errors = validateTeamCompositionFrontend(composition).errors

\* the frontend copy floored a negative raw score of a supplied formula
C19_Witness ==
  /\ ret.fn = "frontend.calculateAverageScore"
  /\ ret.arg # Undefined
  /\ ret.arg.goalsMultiplier = Num(-1)
  /\ stats.goals = Num(1)
  /\ stats.assists = Num(0)
  /\ stats.cleanSheets = Num(0)
  /\ stats.appearances = Num(1)
  /\ ret.val = Num(0)

(***************************************************************************)
(* Specification of the reducers with the bulk replacements: as            *)
(* SpecReducers, and a consumer of the context also hands a list of its    *)
(* own to reorderPlayers, setTeamPlayers or SET_SELECTED_PLAYERS.          *)
(***************************************************************************)
\* lists a consumer hands over: a reordering, a list that names a player
\* twice and a list of twelve players
BulkPayloads ==
  {<<AllPlayers[2], AllPlayers[1]>>, <<AllPlayers[1], AllPlayers[1]>>,
   SubSeq(AllPlayers, 1, 12)}

DispatchSetSelectedPlayers ==
  /\ store.reducer = "teamReducer"
  /\ \E list \in BulkPayloads :
       Dispatch([type |-> "SET_SELECTED_PLAYERS", payload |-> list])

DispatchReorderPlayers ==
  /\ store.reducer \in {"teamReducer", "fantasyTeamReducer"}
  /\ \E list \in BulkPayloads :
       Dispatch([type |-> "REORDER_PLAYERS", payload |-> list])

DispatchSetTeamPlayers ==
  /\ store.reducer = "fantasyReducer"
  /\ \E list \in BulkPayloads :
       Dispatch([type |-> "SET_TEAM_PLAYERS", payload |-> list])

NextBulkReducers ==
  \/ NextReducers
  \/ DispatchSetSelectedPlayers
  \/ DispatchReorderPlayers
  \/ DispatchSetTeamPlayers

SpecBulkReducers == InitReducers /\ [][NextBulkReducers]_vars

\* C21: in every state the context reducers reach, under every action and
\* with the bulk replacements SET_SELECTED_PLAYERS and REORDER_PLAYERS of
\* teamReducer and SET_TEAM_PLAYERS of fantasyReducer given any list, the
\* roster has no two players of the same id and at most 11 players.
C21_RosterInvariantUnderBulk ==
  (store.reducer \in {"teamReducer", "fantasyReducer"}
     /\ ret.fn = "dispatch")
    => (Len(Roster) <= 11 /\ UniqueIds(Roster))

(***************************************************************************)
(* Specification of the score endpoint of the backend: the score of a      *)
(* known player is asked with and without a formula in the query, the      *)
(* cache is cleared and the clock advances.                                *)
(***************************************************************************)
\* a formula sent in the query
QueryFormula ==
  [goalsMultiplier |-> Num(5), assistsMultiplier |-> Num(0),
   cleanSheetsMultiplier |-> Num(2), yellowCardsPenalty |-> Num(1),
   redCardsPenalty |-> Num(3)]

RequestFantasyScoreWithFormula ==
  \E id \in {"p1", "p12"}, formula \in {Undefined, QueryFormula} :
    Serve(Request("GET /players/:id/fantasyScore", id,
                  [NoQuery EXCEPT !.formula = formula], NoBody))

RequestClearCache == Serve(Request("POST /clear-cache", "", NoQuery, NoBody))

NextFantasyScore ==
  \/ RequestFantasyScoreWithFormula
  \/ RequestClearCache
  \/ Tick
  \/ CheckData

SpecFantasyScore == InitBackend /\ [][NextFantasyScore]_vars

\* C22: in every sequence of GET /players/:id/fantasyScore requests for a
\* known player, with or without cache clears between them, the fantasyScore
\* and avgScore of each response are calculateFantasyScore and
\* calculateAverageScore of the player's stats under the formula of that
\* request, or under the default formula when the request has none.
C22_ScoreUnderRequestFormula ==
  ret.fn = "GET /players/:id/fantasyScore" =>
    LET formula == IF ret.arg.query.formula = Undefined THEN FourThreeTwoOneThree
                   ELSE ret.arg.query.formula
        s == StoredStats(ret.arg.params.id)
    IN  /\ ret.val.status = 200
        /\ ret.val.body.data.fantasyScore = calculateFantasyScore(s, formula)
        /\ ret.val.body.data.avgScore = calculateAverageScore(s, formula)

\* C23: in every TeamState the TeamBuilder reaches, under roster edits,
\* CLEAR_TEAM, SAVE_TEAM and the SET_TEAM_VALIDATION of the score effect,
\* the empty roster included, teamValidation is null or a result whose
\* valid is true exactly when its errors list is empty.
C23_ValidIffNoErrors ==
  \/ store.state.teamValidation = Null
  \/ (store.state.teamValidation.valid <=> Len(store.state.teamValidation.errors) = 0)

(***************************************************************************)
(* Specification of the App on top of the FantasyContext store.  The       *)
(* effect of AppContent runs when state.teamPlayers is another array than  *)
(* at the last render: on an empty roster it dispatches UPDATE_TOTAL_SCORE *)
(* of 0, otherwise it sends calculateTeamScore, whose answer comes back    *)
(* later.  pending holds the player ids of the requests in flight,         *)
(* answered in any order; failed records that a request was lost.          *)
(***************************************************************************)
AppInitialState == [pending |-> <<>>, failed |-> FALSE]

\* the calculateScore effect of AppContent up to its await
appCalculateScoreEffect(st, c) ==
  IF Len(st.teamPlayers) = 0
  THEN [store |-> fantasyReducer(st, [type |-> "UPDATE_TOTAL_SCORE", payload |-> Num(0)]),
        component |-> c]
  ELSE [store |-> st,
        component |-> [c EXCEPT !.pending = Append(@, Ids(st.teamPlayers))]]

\* a dispatch to the store followed by the render it causes
AfterAppDispatch(action, rosterReplaced) ==
  LET st == fantasyReducer(store.state, action)
      after == IF rosterReplaced THEN appCalculateScoreEffect(st, component)
               ELSE [store |-> st, component |-> component]
  IN  /\ Len(after.component.pending) <= MaxInFlight
      /\ store' = [store EXCEPT !.state = after.store]
      /\ component' = after.component

InitApp ==
  /\ store = [reducer |-> "fantasyReducer",
              state |-> appCalculateScoreEffect(FantasyInitialState, AppInitialState).store]
  /\ component = appCalculateScoreEffect(FantasyInitialState, AppInitialState).component
  /\ server = NoServer
  /\ stats = NoStats
  /\ composition = NoComposition
  /\ players = <<>>
  /\ ret = NoCall

\* the players the Dashboard shows in this specification: the first two
\* of the list
ShownPlayers == {AllPlayers[i] : i \in 1..2}

\* onAddPlayer of the Dashboard
AppAddPlayer ==
  /\ \E player \in ShownPlayers :
       AfterAppDispatch([type |-> "ADD_PLAYER", payload |-> player],
                        fantasyReducer(store.state, [type |-> "ADD_PLAYER", payload |-> player]).teamPlayers
                          # store.state.teamPlayers)
  /\ ret' = NoCall
  /\ UNCHANGED <<stats, composition, players, server>>

\* onRemovePlayer of the Dashboard: filter returns another array
AppRemovePlayer ==
  /\ \E i \in 1..Len(store.state.teamPlayers) :
       AfterAppDispatch([type |-> "REMOVE_PLAYER", payload |-> store.state.teamPlayers[i].id],
                        TRUE)
  /\ ret' = NoCall
  /\ UNCHANGED <<stats, composition, players, server>>

\* the rest of calculateScore after its await: the request at index i of
\* pending is answered with the data of the response
ReceiveAppScore ==
  \E i \in 1..Len(component.pending) :
    LET result == apiCalculateTeamScore(component.pending[i])
        rest == [j \in 1..(Len(component.pending) - 1) |->
                   IF j < i THEN component.pending[j] ELSE component.pending[j + 1]]
    IN  /\ result # Null
        /\ component' = [component EXCEPT !.pending = rest]
        /\ store' = [store EXCEPT !.state =
                       fantasyReducer(@, [type |-> "UPDATE_TOTAL_SCORE",
                                          payload |-> result.totalScore])]
        /\ ret' = [fn |-> "UPDATE_TOTAL_SCORE", arg |-> component.pending[i],
                   val |-> result.totalScore]
        /\ UNCHANGED <<stats, composition, players, server>>

\* a request in flight fails: the client throws, the effect logs the error
FailAppScore ==
  \E i \in 1..Len(component.pending) :
    /\ component' = [component EXCEPT
                       !.pending = [j \in 1..(Len(@) - 1) |->
                                      IF j < i THEN @[j] ELSE @[j + 1]],
                       !.failed = TRUE]
    /\ ret' = NoCall
    /\ UNCHANGED <<stats, composition, players, store, server>>

NextApp ==
  \/ AppAddPlayer
  \/ AppRemovePlayer
  \/ ReceiveAppScore
  \/ FailAppScore

SpecApp == InitApp /\ [][NextApp]_vars

\* C24: in the FantasyContext App, whenever no calculateTeamScore request is
\* in flight and every request sent was answered successfully, in whatever
\* order the answers of overlapping requests came, state.totalScore is the
\* sum of the fantasyScore of the current teamPlayers, 0 for an empty roster.
C24_TotalTracksMembership ==
  (component.pending = <<>> /\ ~component.failed)
    => store.state.totalScore = Num(ScoreSum(store.state.teamPlayers))

(***************************************************************************)
(* Specification of POST /calculate-team-score: the bodies are the lists   *)
(* of up to MaxIds ids over four known players and an unknown one, and     *)
(* three lists of 11 ids: a legal team, the same team with its first id    *)
(* listed twice in place of another forward, and a team without a          *)
(* goalkeeper.                                                             *)
(***************************************************************************)
MaxIds == 3   \* ids in a generated playerIds array

TeamScoreIds == {"p1", "p4", "p8", "p12", "p0"}

ElevenIds ==
  {<<"p1", "p2", "p4", "p5", "p6", "p7", "p8", "p9", "p10", "p11", "p12">>,
   <<"p1", "p1", "p4", "p5", "p6", "p7", "p8", "p9", "p10", "p11", "p12">>,
   <<"p1", "p2", "p3", "p4", "p5", "p6", "p7", "p8", "p9", "p10", "p11">>}

\* the handler keeps no state: one request per behaviour
RequestTeamScore ==
  /\ ret = NoCall
  /\ \E playerIds \in UNION {[1..n -> TeamScoreIds] : n \in 0..MaxIds} \cup ElevenIds :
       Serve(Request("POST /calculate-team-score", "", NoQuery,
                     [NoBody EXCEPT !.playerIds = Arr(playerIds)]))

NextTeamScore == RequestTeamScore

SpecTeamScore == InitBackend /\ [][NextTeamScore]_vars

\* the ids of the request served last, and the players of the data source
\* that carry them
SubmittedIds == ret.arg.body.playerIds.items

IsKnownId(id) == \E i \in 1..Len(AllPlayers) : AllPlayers[i].id = id

AllKnown == \A i \in 1..Len(SubmittedIds) : IsKnownId(SubmittedIds[i])

ListedPlayers ==
  [i \in 1..Len(SubmittedIds) |->
     AllPlayers[CHOOSE k \in 1..Len(AllPlayers) : AllPlayers[k].id = SubmittedIds[i]]]

\* C25: POST /calculate-team-score with an array of known ids answers 200
\* with playerCount the length of the array, totalScore the sum of the
\* fantasyScore of the listed players, each occurrence counted, composition
\* the per-position counts of the listed players and isValid and errors those
\* of validateTeamComposition on that composition; with an unknown id in the
\* array it answers 400 'One or more players not found' without a score.
C25_TeamScoreOfKnownIds ==
  ret.fn = "POST /calculate-team-score" =>
    IF AllKnown
    THEN /\ ret.val.status = 200
         /\ ret.val.body.data.playerCount = Len(SubmittedIds)
         /\ ret.val.body.data.totalScore = Num(ScoreSum(ListedPlayers))
         /\ ret.val.body.data.composition = CompositionOf(ListedPlayers)
         /\ ret.val.body.data.isValid
              = validateTeamComposition(CompositionOf(ListedPlayers)).valid
         /\ ret.val.body.data.errors
              = validateTeamComposition(CompositionOf(ListedPlayers)).errors
    ELSE /\ ret.val.status = 400
         /\ ret.val.body = [success |-> FALSE, error |-> "One or more players not found"]

\* C25 witness: a list that names a player twice was scored, and a list
\* with an unknown id was refused.
C25_Witness ==
  /\ ret.fn = "POST /calculate-team-score"
  /\ SubmittedIds = <<"p1", "p12", "p1">>
  /\ ret.val.status = 200
  /\ ret.val.body.data.totalScore = Num(218)
  /\ ret.val.body.data.playerCount = 3

\* C26: whenever the response of POST /calculate-team-score has isValid
\* true, the submitted playerIds are 11 pairwise distinct ids of known
\* players.
C26_ValidOnlyForLegalRoster ==
  (ret.fn = "POST /calculate-team-score" /\ ret.val.status = 200
     /\ ret.val.body.data.isValid)
    => /\ Len(SubmittedIds) = 11
       /\ AllKnown
       /\ \A i, j \in 1..Len(SubmittedIds) : SubmittedIds[i] = SubmittedIds[j] => i = j

(***************************************************************************)
(* Specification of GET /topPlayers of the backend: one request with a     *)
(* limit that is absent, not a number, or the numeral of 1..MaxLimit or of *)
(* 60, and a position that is absent or one of the four.                   *)
(***************************************************************************)
MaxLimit == 20   \* largest limit asked below the cap

TopLimits ==
  {Undefined, Str("abc"), Str("60")} \cup {Str(NumberToString(n)) : n \in 1..MaxLimit}

TopPositions == {Undefined} \cup {Str(p) : p \in ValidPositions}

RequestTopPlayers ==
  /\ ret = NoCall
  /\ \E limit \in TopLimits, position \in TopPositions :
       Serve(Request("GET /topPlayers", "",
                     [NoQuery EXCEPT !.limit = limit, !.position = position], NoBody))

NextTopPlayers == RequestTopPlayers

SpecTopPlayers == InitBackend /\ [][NextTopPlayers]_vars

\* the limit the request asks for: its numeral capped at 50, 10 without one
AskedLimit ==
  LET n == ParseInt(ret.arg.query.limit)
  IN  IF n.t = "number" /\ n.n > 0 THEN (IF n.n < 50 THEN n.n ELSE 50) ELSE 10

\* the players the request ranks: those at its position, or all
RankedPool ==
  IF ret.arg.query.position = Undefined THEN {AllPlayers[i] : i \in 1..Len(AllPlayers)}
  ELSE {AllPlayers[i] : i \in {k \in 1..Len(AllPlayers) :
                                 AllPlayers[k].position = ret.arg.query.position.s}}

\* C27: backend GET /topPlayers with a positive limit L, capped at 50 and 10
\* when absent or not a number, and a valid position P returns the
\* min(L, number of players at P) players at P of highest fantasyScore in
\* descending order of score; without a position, the min(L, total) highest
\* of all players.
C27_TopPlayersRanked ==
  ret.fn = "GET /topPlayers" =>
    LET data == ret.val.body.data
        size == IF AskedLimit < Cardinality(RankedPool) THEN AskedLimit
                ELSE Cardinality(RankedPool)
    IN  /\ ret.val.status = 200
        /\ Len(data) = size
        /\ \A i \in 1..Len(data) : data[i] \in RankedPool
        /\ \A i, j \in 1..Len(data) : i < j => data[i].fantasyScore.n >= data[j].fantasyScore.n
        /\ \A p \in RankedPool :
             (\A i \in 1..Len(data) : data[i].id # p.id)
               => \A i \in 1..Len(data) : data[i].fantasyScore.n >= p.fantasyScore.n

(***************************************************************************)
(* Specification of ADD_PLAYER on the context reducers: as the reducers'   *)
(* specification, with the player of each ADD_PLAYER kept in ret.          *)
(***************************************************************************)
DispatchAddPlayerOf ==
  \E player \in AddCandidates(Roster) :
    /\ store' = Reduce(store, [type |-> "ADD_PLAYER", payload |-> player])
    /\ ret' = [fn |-> "dispatch", arg |-> "ADD_PLAYER", val |-> player]
    /\ UNCHANGED <<stats, composition, players, component, server>>

NextAddPlayer ==
  \/ DispatchAddPlayerOf
  \/ DispatchRemovePlayer
  \/ DispatchClearTeam

SpecAddPlayer == InitReducers /\ [][NextAddPlayer]_vars

\* C28: an ADD_PLAYER on a roster of 11 players or on a roster that has the
\* player's id is rejected: teamReducer returns the state unchanged, and
\* fantasyReducer leaves teamPlayers, totalScore, scoringFormula and filters
\* unchanged and sets error to 'Team is full (max 11 players)' when the
\* roster is full, duplicate or not, and to 'Player already in team'
\* otherwise; an ADD_PLAYER that is accepted appends the player at the end
\* of the roster and clears error.
C28_RejectedAddChangesNothing ==
  [][(store.reducer \in {"teamReducer", "fantasyReducer"}
        /\ ret'.fn = "dispatch" /\ ret'.arg = "ADD_PLAYER")
       => LET player == ret'.val
              full == Len(Roster) >= 11
              duplicate == \E i \in 1..Len(Roster) : Roster[i].id = player.id
          IN  IF full \/ duplicate
              THEN /\ store.reducer = "teamReducer" => store' = store
                   /\ store.reducer = "fantasyReducer" =>
                        /\ store'.state.teamPlayers = store.state.teamPlayers
                        /\ store'.state.totalScore = store.state.totalScore
                        /\ store'.state.scoringFormula = store.state.scoringFormula
                        /\ store'.state.filters = store.state.filters
                        /\ store'.state.error =
                             (IF full THEN Str("Team is full (max 11 players)")
                              ELSE Str("Player already in team"))
              ELSE /\ Roster' = Append(Roster, player)
                   /\ store.reducer = "fantasyReducer" => store'.state.error = Undefined]_vars

\* C28 witness: fantasyReducer was given, on a roster of 11, the first
\* player of the roster and reported the full team.
C28_Witness ==
  /\ store.reducer = "fantasyReducer"
  /\ ret.fn = "dispatch" /\ ret.arg = "ADD_PLAYER"
  /\ Len(Roster) = 11
  /\ ret.val.id = Roster[1].id
  /\ store.state.error = Str("Team is full (max 11 players)")

(***************************************************************************)
(* Specification of the read endpoints of the backend behind the cache:    *)
(* the list, a player and the stats of a player are asked, the player by   *)
(* the ids p1, p0 and stats:p1, the leaderboard with one limit; the cache  *)
(* is cleared, the clock advances and the timer of node-cache fires.       *)
(***************************************************************************)
ReadPlayerIds == {"p1", "p0", "stats:p1"}

RequestReadPlayers == Serve(Request("GET /players", "", NoQuery, NoBody))

RequestReadPlayer ==
  \E id \in ReadPlayerIds : Serve(Request("GET /players/:id", id, NoQuery, NoBody))

RequestReadPlayerStats ==
  \E id \in RequestIds : Serve(Request("GET /players/:id/stats", id, NoQuery, NoBody))

RequestReadTopPlayers ==
  Serve(Request("GET /topPlayers", "", [NoQuery EXCEPT !.limit = Str("3")], NoBody))

NextCacheReads ==
  \/ RequestReadPlayers
  \/ RequestReadPlayer
  \/ RequestReadPlayerStats
  \/ RequestReadTopPlayers
  \/ RequestClearCache
  \/ Tick
  \/ CheckData

SpecCacheReads == InitBackend /\ [][NextCacheReads]_vars

ReadRoutes == {"GET /players", "GET /players/:id", "GET /players/:id/stats", "GET /topPlayers"}

\* the response the handler computes for the request served last when the
\* cache is empty
UncachedResponse == Handle([server EXCEPT !.cache = <<>>], ret.arg).response

\* C29: in every sequence of GET /players, GET /players/:id,
\* GET /players/:id/stats and GET /topPlayers requests with POST /clear-cache
\* and expiries between them, every response is the response the handler
\* computes with an empty cache for the same request; no 404 response is
\* stored; and right after POST /clear-cache the cache holds no key.
C29_CacheTransparent ==
  /\ ret.fn \in ReadRoutes => ret.val = UncachedResponse
  /\ \A k \in DOMAIN server.cache : server.cache[k].v.success
  /\ ret.fn = "POST /clear-cache" => server.cache = <<>>

(***************************************************************************)
(* The uncached router of routes/players.ts, and the specification of the  *)
(* two routers side by side: the cached router serves requests under a     *)
(* clock that advances by its cache duration, and each response is set     *)
(* against the response of the uncached router to the same request.        *)
(***************************************************************************)
\* res.json(body) and res.status(404).send(message) of the uncached router
playersGetHandler(req) == [status |-> 200, body |-> Arr(mockPlayers)]

playersGetStatsHandler(req) ==
  IF req.params.id \in DOMAIN mockPlayerStats
  THEN [status |-> 200, body |-> mockPlayerStats[req.params.id]]
  ELSE [status |-> 404, body |-> Str("Player stats not found")]

playersGetTopPlayersHandler(req) ==
  [status |-> 200,
   body |-> Arr(topPlayersList(req.query,
                               [id \in DOMAIN mockPlayerStats |->
                                  calculateFantasyScoreRouter(mockPlayerStats[id])]))]

playersGetFantasyScoreHandler(req) ==
  IF req.params.id \in DOMAIN mockPlayerStats
  THEN [status |-> 200,
        body |-> [id |-> req.params.id,
                  fantasyScore |-> calculateFantasyScoreRouter(mockPlayerStats[req.params.id])]]
  ELSE [status |-> 404, body |-> Str("Player stats not found")]

HandlePlayers(req) ==
  CASE req.route = "router GET /" -> playersGetHandler(req)
    [] req.route = "router GET /:id/stats" -> playersGetStatsHandler(req)
    [] req.route = "router GET /:id/fantasyScore" -> playersGetFantasyScoreHandler(req)
    [] req.route = "router GET /topPlayers" -> playersGetTopPlayersHandler(req)

RequestRouterStatsOf ==
  \E id \in {"1", "9"} : ServeRouter(Request("router GET /:id/stats", id, NoQuery, NoBody))

RequestRouterTopPlayers ==
  \E position \in {Undefined, Str("def"), Str("noPosition")} :
    ServeRouter(Request("router GET /topPlayers", "",
                        [NoQuery EXCEPT !.limit = Str("2"), !.position = position], NoBody))

NextRouters ==
  \/ RequestRouterPlayers
  \/ RequestRouterStatsOf
  \/ RequestRouterFantasyScore
  \/ RequestRouterTopPlayers
  \/ Tick

SpecRouters == InitCaching /\ [][NextRouters]_vars

RouterRoutes ==
  {"router GET /", "router GET /:id/stats", "router GET /:id/fantasyScore",
   "router GET /topPlayers"}

\* C30: for every sequence of requests to GET /, GET /:id/stats,
\* GET /:id/fantasyScore and GET /topPlayers, whatever the id, limit and
\* position and the time between them, the cached router answers each
\* request with the status and the body the uncached router answers it with.
C30_RoutersAgree ==
  ret.fn \in RouterRoutes => ret.val = HandlePlayers(ret.arg)

====
